---- MODULE Spec2Model ----
(***************************************************************************)
(* Card-extraction and training-example pipeline of the debate-card tool:  *)
(* DocumentParser (src/src/services/documentParser.js) and                 *)
(* TrainingDataService (src/src/services/trainingDataService.js).          *)
(*                                                                         *)
(* JavaScript strings are modelled as TLA+ strings, character by           *)
(* character.  Offsets are 0-based as in the source: Substring(s, a, b)    *)
(* is s.substring(a, b).                                                   *)
(***************************************************************************)
EXTENDS Integers, Sequences, FiniteSets, TLC

VARIABLES
    htmlContent,      \* document.htmlContent of the document being parsed
    engineThrowsOn,   \* the block on which a step inside parseCardBlock's try raises ("" = none)
    pc,               \* position of the running extractDebateCards call
    callNo,           \* calls of extractDebateCards started on htmlContent: 0, 1, or 2 for more
    tagRegex,         \* lastIndex of the RegExp object used by splitIntoCardBlocks
    fmtRegex,         \* lastIndex of the five RegExp objects of formattingPatterns
    cardBlocks,       \* const cardBlocks of extractDebateCards
    blockIdx,         \* number of blocks the for-of loop has consumed
    cards,            \* const cards of extractDebateCards
    returned,         \* value the last completed call resolved with (NotReturned before)
    firstReturned,    \* value the first completed call on htmlContent resolved with
    inCards,          \* argument of convertCardsToTrainingData
    tpc,              \* position of the running convertCardsToTrainingData call
    cardIdx,          \* number of cards the for-of loop has finished
    examples,         \* const examples of generateTrainingExamples
    trainingExamples, \* const trainingExamples of convertCardsToTrainingData
    thrownAt,         \* per finished card: the step that threw ("" = none)
    trainReturned,    \* value convertCardsToTrainingData resolved with
    cleanArg,         \* the argument text of a cleanText call
    cleanResult,      \* value the cleanText call returned (NotReturned before)
    contextCard,      \* the argument card of an inferDebateContext call
    contextResult,    \* value the inferDebateContext call returned (NotReturned before)
    currentDocument,  \* this.currentDocument of the app: "null" or "document"
    isProcessing,     \* this.isProcessing of the app
    trainingData,     \* this.trainingData of the app
    openPc,           \* position of the running openDocument handler
    scanRuns,         \* per scan request: position and locals of its scanDocument run
    serviceCalls,     \* the calls of the two services the runs have made, in order
    trainRuns,        \* per training request: position of its startTraining run, its job and its monitor
    client,           \* this.client of the OpenAI service: "null" or "client"
    formatCalls       \* per getCardFormatting call: its position and the retries it has made

parserVars == <<htmlContent, engineThrowsOn, pc, callNo, tagRegex, fmtRegex,
                cardBlocks, blockIdx, cards, returned, firstReturned>>
trainVars == <<inCards, tpc, cardIdx, examples, trainingExamples, thrownAt,
               trainReturned>>
cleanVars == <<cleanArg, cleanResult>>
contextVars == <<contextCard, contextResult>>
callVars == <<cleanVars, contextVars>>
serviceVars == <<parserVars, trainVars, callVars>>
scanVars == <<currentDocument, isProcessing, trainingData, openPc, scanRuns, serviceCalls>>
monitorVars == <<trainRuns>>
formatVars == <<client, formatCalls>>
appVars == <<scanVars, monitorVars, formatVars>>
vars == <<serviceVars, appVars>>

(***************************************************************************)
(* String primitives                                                       *)
(***************************************************************************)
\* const v = ...; the rest of the computation F reads v
With(v, F(_)) == F(v)

Substring(s, a, b) == SubSeq(s, a + 1, b)

CharAt(s, i) == SubSeq(s, i + 1, i + 1)

MinOf(S) == CHOOSE k \in S : \A m \in S : k <= m

MaxOf(S) == CHOOSE k \in S : \A m \in S : k >= m

UpperCase == <<"A","B","C","D","E","F","G","H","I","J","K","L","M",
               "N","O","P","Q","R","S","T","U","V","W","X","Y","Z">>

LowerCase == <<"a","b","c","d","e","f","g","h","i","j","k","l","m",
               "n","o","p","q","r","s","t","u","v","w","x","y","z">>

LowerChar(c) ==
    With({n \in 1..26 : UpperCase[n] = c},
         LAMBDA up : IF up = {} THEN c ELSE LowerCase[MinOf(up)])

RECURSIVE toLowerCase(_)
toLowerCase(s) ==
    IF Len(s) = 0 THEN ""
    ELSE IF Len(s) = 1 THEN LowerChar(s)
    ELSE toLowerCase(Substring(s, 0, Len(s) \div 2))
         \o toLowerCase(Substring(s, Len(s) \div 2, Len(s)))

Digits == {"0","1","2","3","4","5","6","7","8","9"}

HexDigits == Digits \cup {"a","b","c","d","e","f","A","B","C","D","E","F"}

WhiteSpace == {" ", "\t", "\n", "\r", "\f"}

LineTerminators == {"\n", "\r"}

Letters == {UpperCase[n] : n \in 1..26} \cup {LowerCase[n] : n \in 1..26}

\* s.startsWith(lit, i)
StartsAt(s, i, lit) ==
    /\ i >= 0
    /\ i + Len(lit) <= Len(s)
    /\ Substring(s, i, i + Len(lit)) = lit

\* the same under the regular expression flag i (lit is lower case)
StartsAtI(s, i, lit) ==
    /\ i >= 0
    /\ i + Len(lit) <= Len(s)
    /\ toLowerCase(Substring(s, i, i + Len(lit))) = lit

\* the smaller of two offsets
Least(a, b) == IF a <= b THEN a ELSE b

\* s.indexOf(lit, from), -1 when absent (the string is scanned 16 offsets at a time)
RECURSIVE IndexOfFrom(_,_,_)
IndexOfFrom(s, lit, from) ==
    IF from + Len(lit) > Len(s) THEN -1
    ELSE With({k \in from..Least(from + 15, Len(s) - Len(lit)) :
                  Substring(s, k, k + Len(lit)) = lit},
              LAMBDA S : IF S # {} THEN MinOf(S) ELSE IndexOfFrom(s, lit, from + 16))

\* s.includes(lit)
Includes(s, lit) == IndexOfFrom(s, lit, 0) # -1

\* first offset >= from whose character is in (or, with neg, not in) the class;
\* s.length when there is none
RECURSIVE IndexOfClass(_,_,_,_)
IndexOfClass(s, class, neg, from) ==
    IF from >= Len(s) THEN Len(s)
    ELSE With({k \in from..Least(from + 15, Len(s) - 1) : (CharAt(s, k) \in class) # neg},
              LAMBDA S : IF S # {} THEN MinOf(S)
                         ELSE IndexOfClass(s, class, neg, from + 16))

\* last offset < before whose character is not in the class, -1 when there is none
RECURSIVE LastIndexNotOfClass(_,_,_)
LastIndexNotOfClass(s, class, before) ==
    IF before <= 0 THEN -1
    ELSE With({k \in (IF before > 16 THEN before - 16 ELSE 0)..(before - 1) :
                  CharAt(s, k) \notin class},
              LAMBDA S : IF S # {} THEN MaxOf(S)
                         ELSE LastIndexNotOfClass(s, class, before - 16))

\* s.replace(/lit/g, rep) for a literal pattern
RECURSIVE ReplaceAll(_,_,_)
ReplaceAll(s, lit, rep) ==
    With(IndexOfFrom(s, lit, 0), LAMBDA i :
         IF i = -1 THEN s
         ELSE Substring(s, 0, i) \o rep
              \o ReplaceAll(Substring(s, i + Len(lit), Len(s)), lit, rep))

\* s.replace(/\s+/g, ' ')
RECURSIVE CollapseWhiteSpace(_)
CollapseWhiteSpace(s) ==
    With(IndexOfClass(s, WhiteSpace, FALSE, 0), LAMBDA i :
         IF i = Len(s) THEN s
         ELSE Substring(s, 0, i) \o " "
              \o CollapseWhiteSpace(
                   Substring(s, IndexOfClass(s, WhiteSpace, TRUE, i), Len(s))))

\* s.trim()
Trim(s) ==
    With(IndexOfClass(s, WhiteSpace, TRUE, 0), LAMBDA a :
         IF a = Len(s) THEN ""
         ELSE Substring(s, a, LastIndexNotOfClass(s, WhiteSpace, Len(s)) + 1))

(***************************************************************************)
(* DocumentParser.cleanText                                                *)
(***************************************************************************)
cleanText(text) ==
    IF text = "" THEN ""
    ELSE Trim(CollapseWhiteSpace(
           ReplaceAll(ReplaceAll(ReplaceAll(ReplaceAll(ReplaceAll(ReplaceAll(
             text, "&nbsp;", " "), "&amp;", "&"), "&lt;", "<"), "&gt;", ">"),
             "&quot;", "\""), "&#39;", "'")))

(***************************************************************************)
(* Regular expressions of the parser.  Every pattern of the source that    *)
(* scans for an element has the shape  <open head> inner close ; a         *)
(* pattern is the record of its parts and MatchAt applies it at one        *)
(* offset exactly as the backtracking matcher does: [^>]*> ends at the     *)
(* first '>', [^<]+ at the first '<', and .*? stops at the first closer    *)
(* and cannot cross a line terminator.                                     *)
(***************************************************************************)
NoMatch == [index |-> -1, end |-> -1, g1 |-> "", whole |-> ""]

HeadingOpens == <<"<h1", "<h2", "<h3">>

HeadingCloses == <<"</h1>", "</h2>", "</h3>">>

\* tagPattern,
\* /<h[1-3][^>]*class="tag"[^>]*>.*?<\/h[1-3]>|<h[1-3][^>]*>.*?<\/h[1-3]>/gi:
\* the head of the opening tag holds class="tag" (first alternative) or anything
tagPattern ==
    [type |-> "", opens |-> HeadingOpens, head |-> "tag|any", inner |-> "dot",
     closes |-> HeadingCloses]

\* /<h[1-3][^>]*>.*?<\/h[1-3]>/gi
HeadingPattern ==
    [type |-> "", opens |-> HeadingOpens, head |-> "any", inner |-> "dot",
     closes |-> HeadingCloses]

\* /<h[1-3][^>]*(?:class="tag"[^>]*)?>([^<]+)<\/h[1-3]>|<h[1-3][^>]*>([^<]+)<\/h[1-3]>/i
TagTextPattern ==
    [type |-> "", opens |-> HeadingOpens, head |-> "tag|any", inner |-> "text",
     closes |-> HeadingCloses]

\* /<p[^>]*class="cite"[^>]*>([^<]+(?:<[^>]+>[^<]*<\/[^>]+>[^<]*)*)<\/p>/i
CiteClassPattern ==
    [type |-> "", opens |-> <<"<p">>, head |-> "cite", inner |-> "groups",
     closes |-> <<"</p>">>]

\* /<p[^>]*class="cite"[^>]*>.*?<\/p>/gi
CiteRemovePattern ==
    [type |-> "", opens |-> <<"<p">>, head |-> "cite", inner |-> "dot",
     closes |-> <<"</p>">>]

\* /<p[^>]*><(?:strong|em|b|i)[^>]*>([^<]+)<\/(?:strong|em|b|i)>[^<]*(?:\d{4}|[A-Z][a-z]+)[^<]*<\/p>/i
CiteRunPattern ==
    [type |-> "", opens |-> <<"<p">>, head |-> "any", inner |-> "run",
     closes |-> <<"</p>">>]

\* the <mark> pattern carries the type mark
formattingPatternsWithMark ==
    << [type |-> "underline", opens |-> <<"<u">>, head |-> "any", inner |-> "dot",
        closes |-> <<"</u>">>],
       [type |-> "emphasis", opens |-> <<"<em", "<i">>, head |-> "any", inner |-> "dot",
        closes |-> <<"</em>", "</i>">>],
       [type |-> "strong", opens |-> <<"<strong", "<b">>, head |-> "any", inner |-> "dot",
        closes |-> <<"</strong>", "</b>">>],
       [type |-> "mark", opens |-> <<"<mark">>, head |-> "any", inner |-> "dot",
        closes |-> <<"</mark>">>],
       [type |-> "highlight", opens |-> <<"<span">>, head |-> "bg", inner |-> "dot",
        closes |-> <<"</span>">>] >>

\* formattingPatterns
formattingPatterns ==
    << [type |-> "underline", opens |-> <<"<u">>, head |-> "any", inner |-> "dot",
        closes |-> <<"</u>">>],
       [type |-> "emphasis", opens |-> <<"<em", "<i">>, head |-> "any", inner |-> "dot",
        closes |-> <<"</em>", "</i>">>],
       [type |-> "strong", opens |-> <<"<strong", "<b">>, head |-> "any", inner |-> "dot",
        closes |-> <<"</strong>", "</b>">>],
       [type |-> "highlight", opens |-> <<"<mark">>, head |-> "any", inner |-> "dot",
        closes |-> <<"</mark>">>],
       [type |-> "highlight", opens |-> <<"<span">>, head |-> "bg", inner |-> "dot",
        closes |-> <<"</span>">>] >>

\* background-color:\s*#[a-fA-F0-9]{6} somewhere in the head of the tag
HasBackgroundColour(head) ==
    \E q \in 0..(Len(head) - 1) :
       /\ StartsAtI(head, q, "background-color:")
       /\ With(IndexOfClass(head, WhiteSpace, TRUE, q + 17), LAMBDA h :
               /\ StartsAt(head, h, "#")
               /\ h + 7 <= Len(head)
               /\ \A d \in 1..6 : CharAt(head, h + d) \in HexDigits)

HeadOK(head, kind) ==
    CASE kind = "any"     -> TRUE
      [] kind = "tag|any" -> Includes(toLowerCase(head), "class=\"tag\"") \/ TRUE
      [] kind = "cite"    -> Includes(toLowerCase(head), "class=\"cite\"")
      [] kind = "bg"      -> HasBackgroundColour(head)

\* the alternatives of a sequence of literals that match at offset i
AltsAt(s, i, lits) ==
    IF CharAt(s, i) # "<" THEN {}
    ELSE {n \in 1..Len(lits) : StartsAtI(s, i, lits[n])}

\* first offset >= from at which one of the literals matches, -1 when there is none
RECURSIVE NextAlt(_,_,_)
NextAlt(s, from, lits) ==
    IF from >= Len(s) THEN -1
    ELSE With({k \in from..Least(from + 15, Len(s) - 1) : AltsAt(s, k, lits) # {}},
              LAMBDA S : IF S # {} THEN MinOf(S) ELSE NextAlt(s, from + 16, lits))

\* the offset after the alternative that matches at offset i, or -1
AfterAlt(s, i, lits) ==
    With(AltsAt(s, i, lits),
         LAMBDA as : IF as = {} THEN -1 ELSE i + Len(lits[MinOf(as)]))

\* one (?:<[^>]+>[^<]*<\/[^>]+>[^<]*) group at offset p: the offset after it, or -1
CiteGroupEnd(s, p) ==
    With(IndexOfFrom(s, ">", p + 1), LAMBDA q :
      IF ~StartsAt(s, p, "<") \/ q < p + 2 THEN -1
      ELSE With(IndexOfClass(s, {"<"}, FALSE, q + 1), LAMBDA r :
             With(IndexOfFrom(s, ">", r + 2), LAMBDA u :
               IF ~StartsAt(s, r, "</") \/ u < r + 3 THEN -1
               ELSE IndexOfClass(s, {"<"}, FALSE, u + 1))))

\* (?:group)*<\/p> at offset p, greedy with backtracking: the offset of </p>, or -1
RECURSIVE CiteGroups(_,_)
CiteGroups(s, p) ==
    With(CiteGroupEnd(s, p), LAMBDA g :
      With(IF g = -1 THEN -1 ELSE CiteGroups(s, g), LAMBDA rest :
        IF rest # -1 THEN rest
        ELSE IF StartsAtI(s, p, "</p>") THEN p
        ELSE -1))

\* (?:\d{4}|[A-Z][a-z]+) under flag i somewhere in seg: four digits or two letters in a row
HasYearOrWord(seg) ==
    \E q \in 0..(Len(seg) - 1) :
       \/ /\ q + 4 <= Len(seg)
          /\ \A d \in 0..3 : CharAt(seg, q + d) \in Digits
       \/ /\ q + 2 <= Len(seg)
          /\ CharAt(seg, q) \in Letters /\ CharAt(seg, q + 1) \in Letters

RunOpens == <<"<strong", "<em", "<b", "<i">>

RunCloses == <<"</strong>", "</em>", "</b>", "</i>">>

\* <(?:strong|em|b|i)[^>]*>([^<]+)<\/(?:strong|em|b|i)>[^<]*(?:\d{4}|[A-Z][a-z]+)[^<]*
\* at offset from: <<start of group 1, end of group 1, offset of the following '<'>>,
\* or <<-1, -1, -1>>
RunThenYear(s, from) ==
    With(AfterAlt(s, from, RunOpens), LAMBDA a :
      With(IF a = -1 THEN -1 ELSE IndexOfFrom(s, ">", a), LAMBDA j :
        With(IF j = -1 THEN -1 ELSE IndexOfClass(s, {"<"}, FALSE, j + 1), LAMBDA k :
          With(IF k <= j + 1 THEN -1 ELSE AfterAlt(s, k, RunCloses), LAMBDA e :
            With(IF e = -1 THEN -1 ELSE IndexOfClass(s, {"<"}, FALSE, e), LAMBDA t :
              IF e # -1 /\ HasYearOrWord(Substring(s, e, t))
              THEN <<j + 1, k, t>> ELSE <<-1, -1, -1>>)))))

\* the inner part that starts at offset from:
\* <<start of group 1, end of group 1, offset of the closer>>, or <<-1, -1, -1>>
InnerEnd(s, from, P) ==
    CASE P.inner = "dot" ->
           With(NextAlt(s, from, P.closes), LAMBDA k :
             IF k = -1 \/ IndexOfClass(Substring(s, from, k), LineTerminators, FALSE, 0) < k - from
             THEN <<-1, -1, -1>> ELSE <<from, k, k>>)
      [] P.inner = "text" ->
           With(IndexOfClass(s, {"<"}, FALSE, from), LAMBDA k :
             IF k > from /\ AltsAt(s, k, P.closes) # {}
             THEN <<from, k, k>> ELSE <<-1, -1, -1>>)
      [] P.inner = "groups" ->
           With(IndexOfClass(s, {"<"}, FALSE, from), LAMBDA k :
             With(IF k > from /\ k < Len(s) THEN CiteGroups(s, k) ELSE -1, LAMBDA c :
               IF c = -1 THEN <<-1, -1, -1>> ELSE <<from, c, c>>))
      [] P.inner = "run" ->
           With(RunThenYear(s, from), LAMBDA r :
             IF r[3] # -1 /\ AltsAt(s, r[3], P.closes) # {} THEN r ELSE <<-1, -1, -1>>)

\* the match of pattern P that starts at offset i, or NoMatch
MatchAt(s, i, P) ==
    With(AfterAlt(s, i, P.opens), LAMBDA h :
      With(IF h = -1 THEN -1 ELSE IndexOfFrom(s, ">", h), LAMBDA j :
        IF j = -1 \/ ~HeadOK(Substring(s, h, j), P.head) THEN NoMatch
        ELSE With(InnerEnd(s, j + 1, P), LAMBDA in :
               IF in[3] = -1 THEN NoMatch
               ELSE With(AfterAlt(s, in[3], P.closes), LAMBDA e :
                      [index |-> i, end |-> e,
                       g1 |-> Substring(s, in[1], in[2]),
                       whole |-> Substring(s, i, e)]))))

\* the leftmost match of P that starts at or after offset from
RECURSIVE FirstMatch(_,_,_)
FirstMatch(s, from, P) ==
    With(NextAlt(s, from, P.opens), LAMBDA i :
      IF i = -1 THEN NoMatch
      ELSE With(MatchAt(s, i, P), LAMBDA m :
             IF m # NoMatch THEN m ELSE FirstMatch(s, i + 1, P)))

\* RegExp.prototype.exec of a global pattern: the leftmost match at or after
\* lastIndex and the new lastIndex (0 after a failed search)
Exec(s, lastIndex, P) ==
    With(FirstMatch(s, lastIndex, P),
         LAMBDA m : [match |-> m, lastIndex |-> IF m = NoMatch THEN 0 ELSE m.end])

\* String.prototype.match of a pattern without the g flag: the leftmost match
Match(s, P) == Exec(s, 0, P).match

\* String.prototype.replace with a global pattern
RECURSIVE ReplacePattern(_,_,_)
ReplacePattern(s, P, rep) ==
    With(Exec(s, 0, P).match, LAMBDA m :
      IF m = NoMatch THEN s
      ELSE Substring(s, 0, m.index) \o rep
           \o ReplacePattern(Substring(s, m.end, Len(s)), P, rep))

\* s.replace(/<[^>]*>/g, ' ')
RECURSIVE ReplaceTags(_,_)
ReplaceTags(s, rep) ==
    With(IndexOfFrom(s, "<", 0), LAMBDA i :
      With(IF i = -1 THEN -1 ELSE IndexOfFrom(s, ">", i + 1), LAMBDA j :
        IF j = -1 THEN s
        ELSE Substring(s, 0, i) \o rep
             \o ReplaceTags(Substring(s, j + 1, Len(s)), rep)))

(***************************************************************************)
(* DocumentParser.splitIntoCardBlocks                                      *)
(***************************************************************************)
\* lastIndex of a RegExp object at the point the source creates it
\* (new RegExp(tagPattern), and the regex literals of formattingPatterns)
ReusedRegExp(previous) == previous

NewRegExp(previous) == 0

\* the content before the match is pushed even when it is blank
PushPreviousEvenBlank(blocks, html, lastIndex, index) ==
    IF index > lastIndex
    THEN Append(blocks, Substring(html, lastIndex, index)) ELSE blocks

\* blocks.push(previousBlock) when it lies before the match and is not blank
PushPrevious(blocks, html, lastIndex, index) ==
    IF index > lastIndex /\ Trim(Substring(html, lastIndex, index)) # ""
    THEN Append(blocks, Substring(html, lastIndex, index)) ELSE blocks

\* the while loop: lastIndex is the local of that name, regexLastIndex is regex.lastIndex
RECURSIVE SplitLoop(_,_,_,_)
SplitLoop(html, lastIndex, regexLastIndex, blocks) ==
    With(Exec(html, regexLastIndex, tagPattern), LAMBDA r :
      IF r.match = NoMatch
      THEN [blocks |-> blocks, lastIndex |-> lastIndex, regexLastIndex |-> r.lastIndex]
      ELSE With(Exec(html, r.lastIndex, tagPattern).match, LAMBDA nextTagMatch :
        With(IF nextTagMatch # NoMatch THEN nextTagMatch.index ELSE Len(html),
             LAMBDA endIndex :
          With(Append(PushPrevious(blocks, html, lastIndex, r.match.index),
                      Substring(html, r.match.index, endIndex)), LAMBDA pushed :
            IF nextTagMatch # NoMatch
            THEN SplitLoop(html, endIndex, nextTagMatch.index, pushed)
            ELSE [blocks |-> pushed, lastIndex |-> endIndex,
                  regexLastIndex |-> r.match.index]))))

\* blocks.filter(block => block.trim().length > 50)
MinBlockLength == 50

\* block.trim().length >= 50
KeepBlockFromFifty(block) == Len(Trim(block)) >= MinBlockLength

KeepBlock(block) == Len(Trim(block)) > MinBlockLength

FilterBlocks(blocks) == SelectSeq(blocks, KeepBlock)

\* the content left after the loop is not pushed
CandidateBlocksWithoutRest(html, regexLastIndex) ==
    With(SplitLoop(html, 0, regexLastIndex, <<>>), LAMBDA loop :
      [blocks |-> loop.blocks, regexLastIndex |-> loop.regexLastIndex])

\* all candidate blocks, before the length filter
CandidateBlocks(html, regexLastIndex) ==
    With(SplitLoop(html, 0, regexLastIndex, <<>>), LAMBDA loop :
      [blocks |-> IF loop.lastIndex < Len(html)
                  THEN PushPrevious(loop.blocks, html, loop.lastIndex, Len(html))
                  ELSE loop.blocks,
       regexLastIndex |-> loop.regexLastIndex])

\* the blocks returned, and the lastIndex the RegExp object is left with
splitIntoCardBlocks(html, regexLastIndex) ==
    With(CandidateBlocks(html, regexLastIndex), LAMBDA c :
      [blocks |-> FilterBlocks(c.blocks), regexLastIndex |-> c.regexLastIndex])

(***************************************************************************)
(* DocumentParser.extractBodyContent                                       *)
(***************************************************************************)
\* the while loop of one formatting pattern: its matches in the order found
RECURSIVE AllMatches(_,_,_)
AllMatches(s, P, lastIndex) ==
    With(Exec(s, lastIndex, P), LAMBDA r :
      IF r.match = NoMatch THEN <<>>
      ELSE <<r.match>> \o AllMatches(s, P, r.lastIndex))

\* endPosition is the offset of the last character, not the offset after it
NewElementInclusiveEnd(type, match, cleanTextSoFar, textPosition) ==
    With(cleanText(match.g1), LAMBDA text :
      [type |-> type, text |-> text,
       startPosition |-> Len(cleanTextSoFar) + textPosition,
       endPosition |-> Len(cleanTextSoFar) + textPosition + Len(text) - 1,
       htmlMatch |-> match.whole])

\* elements.push({...}) for one match; cleanText is still '' and textPosition 0
\* while the patterns are scanned
NewElement(type, match, cleanTextSoFar, textPosition) ==
    With(cleanText(match.g1), LAMBDA text :
      [type |-> type, text |-> text,
       startPosition |-> Len(cleanTextSoFar) + textPosition,
       endPosition |-> Len(cleanTextSoFar) + textPosition + Len(text),
       htmlMatch |-> match.whole])

\* the comparator (a, b) => a.startPosition - b.startPosition
CompareStart(a, b) == a.startPosition - b.startPosition

\* an unstable sort: e goes before the elements equal to it
InsertBeforeEqual(sorted, e) ==
    With({n \in 1..Len(sorted) : CompareStart(sorted[n], e) >= 0}, LAMBDA after :
      With(IF after = {} THEN Len(sorted) + 1 ELSE MinOf(after), LAMBDA at :
        SubSeq(sorted, 1, at - 1) \o <<e>> \o SubSeq(sorted, at, Len(sorted))))

\* Array.prototype.sort, which is stable: e goes behind every element not greater
InsertSorted(sorted, e) ==
    With({n \in 1..Len(sorted) : CompareStart(sorted[n], e) > 0}, LAMBDA after :
      With(IF after = {} THEN Len(sorted) + 1 ELSE MinOf(after), LAMBDA at :
        SubSeq(sorted, 1, at - 1) \o <<e>> \o SubSeq(sorted, at, Len(sorted))))

RECURSIVE SortByStart(_)
SortByStart(elements) ==
    IF elements = <<>> THEN <<>>
    ELSE InsertSorted(SortByStart(SubSeq(elements, 1, Len(elements) - 1)),
                      elements[Len(elements)])

\* the class="cite" paragraphs are left in the body
BodyHtmlWithCite(htmlBlock) == ReplacePattern(htmlBlock, HeadingPattern, "")

\* bodyHtml: the block without its headings and class="cite" paragraphs
BodyHtml(htmlBlock) ==
    ReplacePattern(ReplacePattern(htmlBlock, HeadingPattern, ""), CiteRemovePattern, "")

\* the order in which the for-of loop takes the formattingPatterns
PatternOrder == <<1, 2, 3, 4, 5>>

\* the elements in the order the nested loops push them
RECURSIVE PushedElements(_,_,_)
PushedElements(bodyHtml, lastIndexes, n) ==
    IF n > Len(PatternOrder) THEN <<>>
    ELSE With(AllMatches(bodyHtml, formattingPatterns[PatternOrder[n]],
                         lastIndexes[PatternOrder[n]]), LAMBDA ms :
           [m \in 1..Len(ms) |->
               NewElement(formattingPatterns[PatternOrder[n]].type, ms[m], "", 0)])
         \o PushedElements(bodyHtml, lastIndexes, n + 1)

extractBodyContent(htmlBlock, lastIndexes) ==
    With(BodyHtml(htmlBlock), LAMBDA bodyHtml :
      [text |-> cleanText(CollapseWhiteSpace(ReplaceTags(bodyHtml, " "))),
       elements |-> SortByStart(PushedElements(bodyHtml, lastIndexes, 1))])

(***************************************************************************)
(* DocumentParser.parseCardBlock, isValidCard                              *)
(***************************************************************************)
\* card.tag / card.cite: the cleaned group 1 of the match, '' without a match
CleanGroup(match) == IF match = NoMatch THEN "" ELSE cleanText(match.g1)

\* citeMatch = htmlBlock.match(class="cite" pattern) || htmlBlock.match(run pattern)
CiteMatch(htmlBlock) ==
    With(Match(htmlBlock, CiteClassPattern), LAMBDA m :
      IF m # NoMatch THEN m ELSE Match(htmlBlock, CiteRunPattern))

\* parseCardBlock's result is <<card>>, or <<>> for null (a step in the try raised)
parseCardBlock(htmlBlock, raises, lastIndexes) ==
    IF raises THEN <<>>
    ELSE With(extractBodyContent(htmlBlock, lastIndexes), LAMBDA bodyContent :
           <<[tag |-> CleanGroup(Match(htmlBlock, TagTextPattern)),
              cite |-> CleanGroup(CiteMatch(htmlBlock)),
              bodyText |-> bodyContent.text,
              formattedElements |-> bodyContent.elements,
              rawHtml |-> htmlBlock]>>)

\* lastIndex of the five pattern objects once parseCardBlock is left: every
\* while loop that ran to its end saw exec return null, which resets lastIndex;
\* a raise leaves extractBodyContent inside the first loop, after its first exec
LastIndexesAfter(htmlBlock, raises, lastIndexes) ==
    IF raises
    THEN [n \in 1..5 |->
            IF n = 1
            THEN Exec(BodyHtml(htmlBlock), lastIndexes[1], formattingPatterns[1]).lastIndex
            ELSE lastIndexes[n]]
    ELSE [n \in 1..5 |-> 0]

\* the same over the blocks of a whole call, from block n on
RECURSIVE LastIndexesAfterBlocks(_,_,_,_)
LastIndexesAfterBlocks(blocks, throwsOn, lastIndexes, n) ==
    IF n > Len(blocks) THEN lastIndexes
    ELSE LastIndexesAfterBlocks(blocks, throwsOn,
             LastIndexesAfter(blocks[n], blocks[n] = throwsOn,
                              [k \in 1..5 |-> NewRegExp(lastIndexes[k])]),
             n + 1)

MinTagLength == 2

MinBodyLength == 20

\* tag.length >= 2 in place of tag.length > 2
isValidCardFromTwo(card) ==
    /\ card.tag # "" /\ Len(card.tag) >= MinTagLength
    /\ card.bodyText # "" /\ Len(card.bodyText) > MinBodyLength
    /\ (card.cite # "" \/ Len(card.formattedElements) > 0)

isValidCard(card) ==
    /\ card.tag # "" /\ Len(card.tag) > MinTagLength
    /\ card.bodyText # "" /\ Len(card.bodyText) > MinBodyLength
    /\ (card.cite # "" \/ Len(card.formattedElements) > 0)

\* cards.unshift(card) in place of cards.push(card)
PushFirstIfValid(collected, card) ==
    IF card # <<>> /\ isValidCard(card[1]) THEN <<card[1]>> \o collected ELSE collected

\* a null card ends the collection instead of being skipped
PushOrAbort(collected, card) ==
    IF card = <<>> THEN <<>>
    ELSE IF isValidCard(card[1]) THEN Append(collected, card[1]) ELSE collected

\* if (card && this.isValidCard(card)) { cards.push(card) }
PushIfValid(collected, card) ==
    IF card # <<>> /\ isValidCard(card[1]) THEN Append(collected, card[1]) ELSE collected

(***************************************************************************)
(* Documents.  A document is a concatenation of sections as the HTML       *)
(* converter emits them: headings, class="cite" paragraphs, body           *)
(* paragraphs with formatting runs.                                        *)
(***************************************************************************)
MaxSections == 3

\* a block of the shape heading, class="cite" paragraph, body paragraph with a
\* <u> run followed by a <mark> run
ShapedBlock(parts) ==
    parts.open \o parts.heading \o parts.close
    \o "<p class=\"cite\">" \o parts.cite \o "</p>"
    \o "<p>" \o parts.before \o "<u>" \o parts.underlined \o "</u>" \o parts.between
    \o "<mark>" \o parts.marked \o "</mark>" \o parts.after \o "</p>"

\* the end-to-end example
ExampleParts ==
    [open |-> "<h1>", heading |-> "Warming Impact", close |-> "</h1>",
     cite |-> "Smith 2020", before |-> "Sea levels ",
     underlined |-> "will rise dramatically", between |-> " and ",
     marked |-> "50% of coastal cities", after |-> " are at risk."]

\* the same shape with runs that touch the words around them
TightParts ==
    [open |-> "<h3 class=\"tag\">", heading |-> "Econ Link", close |-> "</h3>",
     cite |-> "Jones 2019", before |-> "Trade", underlined |-> "must grow",
     between |-> "by ", marked |-> "3 percent", after |-> "or markets fail."]

SecExample == ShapedBlock(ExampleParts)

SecTight == ShapedBlock(TightParts)

\* a two-character heading over plenty of formatted text
SecHi ==
    "<h2>Hi</h2><p><b>Many</b> claims <u>must be</u> cut and <mark>marked</mark> <em>here</em>.</p>"

\* a heading-led block of at most 50 characters
SecShort == "<h1>Brief</h1><p>tiny</p>"

\* content without a heading
SecIntro == "<p>Table of contents, notes and <i>other</i> front matter.</p>"

\* no class="cite" paragraph: an author run with a year, then strong, coloured and
\* underlined runs
SecRuns ==
    "<H2>Health Costs</H2><p><em>Lee</em> 2021</p><p>Costs <strong>will double</strong> <span style=\"background-color: #ffff00\">by 2030</span> <u>at least</u>.</p>"

Sections == <<SecExample, SecTight, SecHi, SecShort, SecIntro, SecRuns>>

\* the arrangements of n different sections
Arrangements(n) ==
    {f \in [1..n -> 1..Len(Sections)] : \A i, j \in 1..n : f[i] = f[j] => i = j}

RECURSIVE Concatenation(_,_)
Concatenation(f, n) ==
    IF n = 0 THEN "" ELSE Concatenation(f, n - 1) \o Sections[f[n]]

Documents ==
    UNION {{Concatenation(f, n) : f \in Arrangements(n)} : n \in 1..MaxSections}

\* documents of calls that run between two calls on htmlContent
OtherDocuments == {SecTight}

\* the blocks on which the engine may raise inside parseCardBlock ("" = on none)
ThrowChoices(html) == {""} \cup {block \in {SecTight} : Includes(html, block)}

NotReturned == [done |-> FALSE, value |-> <<>>]

Resolved(value) == [done |-> TRUE, value |-> value]

\* an argument of cleanText: null / undefined, or a string
NullArgument == [isNull |-> TRUE]

StringArgument(value) == [isNull |-> FALSE, value |-> value]

\* no cleanText call of its own is under way
CleanIdle ==
    /\ cleanArg = NullArgument
    /\ cleanResult = NotReturned

\* no inferDebateContext call of its own is under way
ContextIdle ==
    /\ contextCard = [tag |-> "", cite |-> "", bodyText |-> ""]
    /\ contextResult = NotReturned

\* the app has been constructed and no event has reached it
AppIdle ==
    /\ currentDocument = "null"
    /\ isProcessing = FALSE
    /\ trainingData = <<>>
    /\ openPc = "none"
    /\ scanRuns = <<>>
    /\ serviceCalls = <<>>
    /\ trainRuns = <<>>
    /\ client = "null"
    /\ formatCalls = <<>>

(***************************************************************************)
(* DocumentParser.extractDebateCards: the synchronous part up to the first *)
(* await, one step per awaited parseCardBlock, and the return.             *)
(***************************************************************************)
TrainIdle ==
    /\ inCards = <<>>
    /\ tpc = "idle"
    /\ cardIdx = 0
    /\ examples = <<>>
    /\ trainingExamples = <<>>
    /\ thrownAt = <<>>
    /\ trainReturned = NotReturned

Init ==
    /\ htmlContent \in Documents
    /\ engineThrowsOn \in ThrowChoices(htmlContent)
    /\ pc = "idle"
    /\ callNo = 0
    /\ tagRegex = 0
    /\ fmtRegex = <<0, 0, 0, 0, 0>>
    /\ cardBlocks = <<>>
    /\ blockIdx = 0
    /\ cards = <<>>
    /\ returned = NotReturned
    /\ firstReturned = NotReturned
    /\ TrainIdle
    /\ CleanIdle
    /\ ContextIdle
    /\ AppIdle

\* const cards = []; const cardBlocks = this.splitIntoCardBlocks(html)
ExtractStart ==
    /\ pc = "idle"
    /\ LET split == splitIntoCardBlocks(htmlContent, NewRegExp(tagRegex))
       IN /\ cardBlocks' = split.blocks
          /\ tagRegex' = split.regexLastIndex
    /\ callNo' = IF callNo < 2 THEN callNo + 1 ELSE callNo
    /\ blockIdx' = 0
    /\ cards' = <<>>
    /\ pc' = "loop"
    /\ UNCHANGED <<htmlContent, engineThrowsOn, fmtRegex, returned, firstReturned>>
    /\ UNCHANGED <<trainVars, callVars, appVars>>

\* const card = await this.parseCardBlock(block); if (card && isValidCard(card)) push
ParseBlock ==
    /\ pc = "loop"
    /\ blockIdx < Len(cardBlocks)
    /\ LET block == cardBlocks[blockIdx + 1]
           raises == block = engineThrowsOn
           starts == [n \in 1..5 |-> NewRegExp(fmtRegex[n])]
           card == parseCardBlock(block, raises, starts)
       IN /\ cards' = PushIfValid(cards, card)
          /\ fmtRegex' = LastIndexesAfter(block, raises, starts)
    /\ blockIdx' = blockIdx + 1
    /\ UNCHANGED <<htmlContent, engineThrowsOn, pc, callNo, tagRegex, cardBlocks,
                   returned, firstReturned>>
    /\ UNCHANGED <<trainVars, callVars, appVars>>

\* return cards
ExtractReturn ==
    /\ pc = "loop"
    /\ blockIdx = Len(cardBlocks)
    /\ returned' = Resolved(cards)
    /\ firstReturned' = IF firstReturned.done THEN firstReturned ELSE Resolved(cards)
    /\ pc' = "idle"
    /\ UNCHANGED <<htmlContent, engineThrowsOn, callNo, tagRegex, fmtRegex,
                   cardBlocks, blockIdx, cards>>
    /\ UNCHANGED <<trainVars, callVars, appVars>>

\* a call of extractDebateCards on another document runs in between
OtherCall ==
    /\ pc = "idle"
    /\ \E other \in OtherDocuments :
          LET split == splitIntoCardBlocks(other, NewRegExp(tagRegex))
          IN /\ tagRegex' = split.regexLastIndex
             /\ fmtRegex' = LastIndexesAfterBlocks(split.blocks, engineThrowsOn,
                                                   fmtRegex, 1)
    /\ UNCHANGED <<htmlContent, engineThrowsOn, pc, callNo, cardBlocks,
                   blockIdx, cards, returned, firstReturned>>
    /\ UNCHANGED <<trainVars, callVars, appVars>>

Next == ExtractStart \/ ParseBlock \/ ExtractReturn \/ OtherCall

Spec == Init /\ [][Next]_vars

(***************************************************************************)
(* TrainingDataService: a card is a record; a field a JavaScript object    *)
(* lacks is a field the record lacks.  A bodyText that is an array of      *)
(* one-character strings is kept as the string of its items, with the      *)
(* field bodyTextIsArray present on the card.                              *)
(***************************************************************************)
Has(object, field) == field \in DOMAIN object

\* `${value}` for a string field, "undefined" for a missing one
Interpolate(object, field) == IF Has(object, field) THEN object[field] ELSE "undefined"

\* value || fallback for a number field
NumberOr(object, field, fallback) ==
    IF Has(object, field) /\ object[field] # 0 THEN object[field] ELSE fallback

IsArrayBody(card) == Has(card, "bodyTextIsArray")

\* Array.prototype.join(','), which is what `${array}` yields
RECURSIVE JoinItems(_)
JoinItems(items) ==
    IF Len(items) <= 1 THEN items
    ELSE With(Len(items) \div 2, LAMBDA h :
           JoinItems(SubSeq(items, 1, h)) \o "," \o JoinItems(SubSeq(items, h + 1, Len(items))))

\* `${card.bodyText}`
BodyString(card) ==
    IF ~Has(card, "bodyText") THEN "undefined"
    ELSE IF IsArrayBody(card) THEN JoinItems(card.bodyText)
    ELSE card.bodyText

\* card.bodyText as a condition: '' and undefined are falsy, every array is truthy
BodyTruthy(card) ==
    Has(card, "bodyText") /\ (IsArrayBody(card) \/ card.bodyText # "")

\* card.formattedElements, [] standing for a missing list where the code tests it
ElementsOf(card) == IF Has(card, "formattedElements") THEN card.formattedElements ELSE <<>>

(***************************************************************************)
(* TrainingDataService.calculatePriority                                   *)
(***************************************************************************)
DefaultPriority == 3

keyTerms ==
    <<"impact", "uniqueness", "link", "internal link", "solvency", "evidence",
      "proves", "shows", "demonstrates">>

strongLanguage ==
    <<"must", "will", "proves", "confirms", "establishes", "critical", "essential">>

StatisticWords == <<"million", "billion", "trillion", "percent">>

\* terms.some(term => text.toLowerCase().includes(term))
SomeIncluded(terms, text) ==
    With(toLowerCase(text), LAMBDA lower :
      \E n \in 1..Len(terms) : Includes(lower, terms[n]))

\* /\d+%|\d+\s*(million|billion|trillion|percent)/.test(text)
StatisticTest(text) ==
    \E q \in 0..(Len(text) - 1) :
       /\ CharAt(text, q) \in Digits
       /\ \/ q + 1 < Len(text) /\ CharAt(text, q + 1) = "%"
          \/ With(IndexOfClass(text, WhiteSpace, TRUE, q + 1), LAMBDA w :
               \E n \in 1..Len(StatisticWords) : StartsAt(text, w, StatisticWords[n]))

\* if (hit) { priority -= 1 }
Decrement(priority, hit) == IF hit THEN priority - 1 ELSE priority

\* Math.min(5, priority), without the floor of 1
ClampWithoutFloor(priority) == MinOf({5, priority})

\* Math.max(1, Math.min(5, priority))
ClampPriority(priority) == MaxOf({1, MinOf({5, priority})})

calculatePriority(element, card) ==
    ClampPriority(
      Decrement(
        Decrement(
          Decrement(DefaultPriority, SomeIncluded(keyTerms, element.text)),
          StatisticTest(element.text)),
        SomeIncluded(strongLanguage, element.text)))

(***************************************************************************)
(* JSON.stringify(response, null, 2) for the response object               *)
(***************************************************************************)
\* the escapes of a JSON string literal
Quote(text) ==
    "\"" \o ReplaceAll(ReplaceAll(ReplaceAll(ReplaceAll(text, "\\", "\\\\"),
                                             "\"", "\\\""), "\n", "\\n"), "\t", "\\t")
         \o "\""

\* one span object at six spaces of indentation; an undefined text is left out
StringifySpan(span) ==
    "    {\n"
    \o (IF Has(span, "text") THEN "      \"text\": " \o Quote(span.text) \o ",\n" ELSE "")
    \o "      \"start\": " \o ToString(span.start) \o ",\n"
    \o "      \"end\": " \o ToString(span.end) \o ",\n"
    \o "      \"priority\": " \o ToString(span.priority) \o "\n"
    \o "    }"

RECURSIVE StringifySpans(_)
StringifySpans(spans) ==
    IF Len(spans) = 1 THEN StringifySpan(spans[1])
    ELSE StringifySpan(spans[1]) \o ",\n" \o StringifySpans(Tail(spans))

StringifyArray(spans) ==
    IF spans = <<>> THEN "[]" ELSE "[\n" \o StringifySpans(spans) \o "\n  ]"

Stringify(response) ==
    "{\n  \"underline\": " \o StringifyArray(response.underline)
    \o ",\n  \"emphasis\": " \o StringifyArray(response.emphasis)
    \o ",\n  \"highlight\": " \o StringifyArray(response.highlight)
    \o ",\n  \"reasoning\": " \o Quote(response.reasoning) \o "\n}"

(***************************************************************************)
(* TrainingDataService.buildFormattingResponse and what it calls           *)
(***************************************************************************)
UnderlineTypes == {"underline"}

\* case 'strong' is missing from the switch
EmphasisTypesWithoutStrong == {"emphasis", "em"}

EmphasisTypes == {"emphasis", "em", "strong"}

HighlightTypes == {"highlight", "mark"}

\* element.text.length or element.text.toLowerCase() is reached with an
\* undefined text: TypeError
SpanThrows(element) ==
    /\ ~Has(element, "text")
    /\ (NumberOr(element, "endPosition", 0) = 0 \/ NumberOr(element, "priority", 0) = 0)

\* const span = { text, start, end, priority }
Span(element, card) ==
    IF Has(element, "text")
    THEN [text |-> element.text,
          start |-> NumberOr(element, "startPosition", 0),
          end |-> IF NumberOr(element, "endPosition", 0) # 0
                  THEN element.endPosition ELSE Len(element.text),
          priority |-> IF NumberOr(element, "priority", 0) # 0
                       THEN element.priority ELSE calculatePriority(element, card)]
    ELSE [start |-> NumberOr(element, "startPosition", 0),
          end |-> element.endPosition,
          priority |-> element.priority]

\* the spans the switch pushes onto one array, in the order of the elements
SpansOfTypes(card, types) ==
    With(SelectSeq(ElementsOf(card),
                   LAMBDA element : Has(element, "type") /\ element.type \in types),
         LAMBDA chosen : [n \in 1..Len(chosen) |-> Span(chosen[n], card)])

RECURSIVE JoinReasons(_)
JoinReasons(reasons) ==
    IF reasons = <<>> THEN ""
    ELSE IF Len(reasons) = 1 THEN reasons[1]
    ELSE reasons[1] \o ". " \o JoinReasons(Tail(reasons))

\* context is <<>> for null and <<debateContext>> otherwise
generateFormattingReasoning(card, formatting, context) ==
    JoinReasons(
        (IF Len(formatting.underline) > 0
         THEN <<"Underlined " \o ToString(Len(formatting.underline))
                \o " key terms and concepts for quick identification during rounds">>
         ELSE <<>>)
     \o (IF Len(formatting.emphasis) > 0
         THEN <<"Emphasized " \o ToString(Len(formatting.emphasis))
                \o " pieces of strong evidence and author conclusions">>
         ELSE <<>>)
     \o (IF Len(formatting.highlight) > 0
         THEN <<"Highlighted " \o ToString(Len(formatting.highlight))
                \o " critical claims and impactful quotes">>
         ELSE <<>>)
     \o (IF context # <<>>
         THEN <<"Formatting optimized for " \o context[1].type \o " arguments in "
                \o context[1].topic \o " debates">>
         ELSE <<>>)) \o "."

\* the response object before it is stringified
FormattingResponse(card, context) ==
    With([underline |-> SpansOfTypes(card, UnderlineTypes),
          emphasis |-> SpansOfTypes(card, EmphasisTypes),
          highlight |-> SpansOfTypes(card, HighlightTypes)],
         LAMBDA response :
           [underline |-> response.underline,
            emphasis |-> response.emphasis,
            highlight |-> response.highlight,
            reasoning |-> generateFormattingReasoning(card, response, context)])

buildFormattingResponse(card, context) == Stringify(FormattingResponse(card, context))

\* buildFormattingResponse raises inside its for-of loop
ResponseThrows(card) ==
    \E n \in 1..Len(ElementsOf(card)) : SpanThrows(ElementsOf(card)[n])

buildCardPrompt(card) ==
    "Please format this debate card:\n\n"
    \o (IF Has(card, "tag") /\ card.tag # "" THEN "TAG: " \o card.tag \o "\n\n" ELSE "")
    \o (IF Has(card, "cite") /\ card.cite # "" THEN "CITE: " \o card.cite \o "\n\n" ELSE "")
    \o "BODY TEXT:\n" \o BodyString(card) \o "\n\n"
    \o "Provide formatting instructions as a JSON object with underline, emphasis, and highlight arrays."

\* a chain of ifs without else: the last branch whose keywords occur wins
LastBranch(text, branches, otherwise) ==
    With({n \in 1..Len(branches) : \E k \in 1..Len(branches[n].words) :
                                       Includes(text, branches[n].words[k])},
         LAMBDA hits : IF hits = {} THEN otherwise ELSE branches[MaxOf(hits)].value)

\* the first branch of an if / else-if chain whose keywords occur in the text
FirstBranch(text, branches, otherwise) ==
    With({n \in 1..Len(branches) : \E k \in 1..Len(branches[n].words) :
                                       Includes(text, branches[n].words[k])},
         LAMBDA hits : IF hits = {} THEN otherwise ELSE branches[MinOf(hits)].value)

TopicBranches ==
    << [words |-> <<"climate", "environment", "warming">>, value |-> "climate change"],
       [words |-> <<"economic", "gdp", "market">>, value |-> "economics"],
       [words |-> <<"security", "military", "defense">>, value |-> "security"],
       [words |-> <<"health", "medical", "disease">>, value |-> "healthcare"] >>

TypeBranches ==
    << [words |-> <<"impact", "consequence", "result">>, value |-> "impact"],
       [words |-> <<"cause", "because", "leads to">>, value |-> "link"],
       [words |-> <<"solve", "address", "fix">>, value |-> "solvency"] >>

inferDebateContext(card) ==
    With(toLowerCase(Interpolate(card, "tag") \o " " \o Interpolate(card, "cite")
                     \o " " \o BodyString(card)),
         LAMBDA text :
           [topic |-> FirstBranch(text, TopicBranches, "general"),
            type |-> FirstBranch(text, TypeBranches, "evidence"),
            urgency |-> "medium"])

\* the elements are looked for in the body of the full card
extractRelevantFormattingInFullBody(partialCard, fullCard) ==
    IF ~Has(fullCard, "formattedElements") \/ ~BodyTruthy(partialCard) THEN <<>>
    ELSE SelectSeq(fullCard.formattedElements,
                   LAMBDA element :
                     Includes(fullCard.bodyText, Interpolate(element, "text")))

\* extractRelevantFormatting: includes(undefined) looks for "undefined"
extractRelevantFormatting(partialCard, fullCard) ==
    IF ~Has(fullCard, "formattedElements") \/ ~BodyTruthy(partialCard) THEN <<>>
    ELSE SelectSeq(fullCard.formattedElements,
                   LAMBDA element :
                     Includes(partialCard.bodyText, Interpolate(element, "text")))

(***************************************************************************)
(* TrainingDataService.generateCardId: Buffer.from(content).toString       *)
(* ('base64').substring(0, 16), for content in printable ASCII             *)
(***************************************************************************)
\* the characters 32..126 in order; the place of the grave accent (96), which a
\* string cannot hold, is kept by a tab
Ascii ==
    " !\"#$%&'()*+,-./0123456789:;<=>?@ABCDEFGHIJKLMNOPQRSTUVWXYZ[\\]^_\tabcdefghijklmnopqrstuvwxyz{|}~"

Base64Alphabet == "ABCDEFGHIJKLMNOPQRSTUVWXYZabcdefghijklmnopqrstuvwxyz0123456789+/"

\* the byte of a character from " " (32) to "~" (126)
CharCode(c) == 32 + IndexOfFrom(Ascii, c, 0)

Base64Char(n) == CharAt(Base64Alphabet, n)

\* the four characters that encode up to three bytes, padded with "="
Base64Group(bytes) ==
    With([n \in 1..3 |-> IF n <= Len(bytes) THEN CharCode(CharAt(bytes, n - 1)) ELSE 0],
         LAMBDA b :
           Base64Char(b[1] \div 4)
           \o Base64Char((b[1] % 4) * 16 + b[2] \div 16)
           \o (IF Len(bytes) > 1 THEN Base64Char((b[2] % 16) * 4 + b[3] \div 64) ELSE "=")
           \o (IF Len(bytes) > 2 THEN Base64Char(b[3] % 64) ELSE "="))

RECURSIVE toBase64(_)
toBase64(content) ==
    IF content = "" THEN ""
    ELSE Base64Group(Substring(content, 0, Least(3, Len(content))))
         \o toBase64(Substring(content, Least(3, Len(content)), Len(content)))

\* card.bodyText?.substring is not a function when bodyText is an array
CardIdThrows(card) == IsArrayBody(card)

generateCardId(card) ==
    With(Interpolate(card, "tag") \o "_" \o Interpolate(card, "cite") \o "_"
         \o (IF Has(card, "bodyText")
             THEN Substring(card.bodyText, 0, Least(50, Len(card.bodyText)))
             ELSE "undefined"),
         LAMBDA content :
           With(toBase64(content), LAMBDA encoded :
             Substring(encoded, 0, Least(16, Len(encoded)))))

(***************************************************************************)
(* The three example builders.  metadata.createdAt, the wall clock at the  *)
(* time of the call, is not part of the record.                            *)
(***************************************************************************)
FullSystemPrompt ==
    "You are an expert debate card formatter. Analyze the provided debate card text and determine the optimal formatting for competitive debate use. Focus on:\n\n1. UNDERLINE: Key concepts, important terms, and crucial phrases that debaters need to quickly identify\n2. EMPHASIS: Strong evidence, author conclusions, and critical arguments that carry significant weight\n3. HIGHLIGHT: The most impactful claims, \"smoking gun\" quotes, and decisive evidence that could win arguments\n\nRespond with a JSON object containing formatting instructions with precise text spans and positioning."

PartialSystemPrompt ==
    "You are a debate card formatting assistant. Given partial card text, predict the likely formatting patterns based on argument structure, evidence strength, and debate utility. Even with incomplete text, identify the most important elements that should be formatted."

ContextSystemPrompt(debateContext) ==
    "You are a specialized debate card formatter with expertise in " \o debateContext.topic
    \o " arguments. Consider the debate context and argument type when making formatting decisions. Prioritize formatting that maximizes the card's utility in competitive debate rounds."

Messages(systemPrompt, userPrompt, assistantResponse) ==
    << [role |-> "system", content |-> systemPrompt],
       [role |-> "user", content |-> userPrompt],
       [role |-> "assistant", content |-> assistantResponse] >>

\* card.id || this.generateCardId(card)
CardIdOr(card) ==
    IF Has(card, "id") /\ card.id # "" THEN card.id ELSE generateCardId(card)

createFormattingExampleThrows(card) ==
    ResponseThrows(card) \/ (~(Has(card, "id") /\ card.id # "") /\ CardIdThrows(card))

createFormattingExample(card) ==
    [messages |-> Messages(FullSystemPrompt, buildCardPrompt(card),
                           buildFormattingResponse(card, <<>>)),
     metadata |-> [cardId |-> CardIdOr(card), tag |-> card.tag, source |-> card.cite,
                   type |-> "full_formatting"]]

\* partialCard = { ...card }; partialCard.bodyText = card.bodyText.substring(0, ...)
PartialCard(card) ==
    [card EXCEPT !.bodyText = Substring(card.bodyText, 0, (Len(card.bodyText) * 6) \div 10)]

\* { ...partialCard, formattedElements: relevantFormatting }
WithRelevantFormatting(partialCard, fullCard) ==
    [field \in DOMAIN partialCard \cup {"formattedElements"} |->
        IF field = "formattedElements"
        THEN extractRelevantFormatting(partialCard, fullCard)
        ELSE partialCard[field]]

createPartialFormattingExampleThrows(partialCard, fullCard) ==
    ResponseThrows(WithRelevantFormatting(partialCard, fullCard))

createPartialFormattingExample(partialCard, fullCard) ==
    [messages |-> Messages(PartialSystemPrompt, buildCardPrompt(partialCard),
                           buildFormattingResponse(
                               WithRelevantFormatting(partialCard, fullCard), <<>>)),
     metadata |-> [cardId |-> generateCardId(partialCard), tag |-> partialCard.tag,
                   source |-> partialCard.cite, type |-> "partial_formatting"]]

createContextAwareExampleThrows(card) == ResponseThrows(card) \/ CardIdThrows(card)

createContextAwareExample(card) ==
    With(inferDebateContext(card), LAMBDA debateContext :
      [messages |->
          Messages(ContextSystemPrompt(debateContext),
                   buildCardPrompt(card) \o "\n\nContext: This appears to be "
                   \o debateContext.type \o " evidence for " \o debateContext.topic
                   \o " arguments. Format accordingly for maximum competitive debate utility.",
                   buildFormattingResponse(card, <<debateContext>>)),
       metadata |-> [cardId |-> generateCardId(card), tag |-> card.tag,
                     source |-> card.cite, debateContext |-> debateContext,
                     type |-> "context_aware_formatting"]])

(***************************************************************************)
(* TrainingDataService.generateTrainingExamples: the conditions of its     *)
(* three steps                                                             *)
(***************************************************************************)
PartialThreshold == 100

\* the test on formattedElements is left out
WantsFullForAnyBody(card) == BodyTruthy(card)

\* the length test of example 2 is made for example 1 as well
WantsFullForLongBody(card) ==
    BodyTruthy(card) /\ Len(card.bodyText) > PartialThreshold /\ Len(ElementsOf(card)) > 0

\* card.bodyText && card.formattedElements && card.formattedElements.length > 0
WantsFull(card) == BodyTruthy(card) /\ Len(ElementsOf(card)) > 0

\* card.bodyText.length >= 100
WantsPartialFromThreshold(card) ==
    BodyTruthy(card) /\ Len(card.bodyText) >= PartialThreshold

\* card.bodyText && card.bodyText.length > 100
WantsPartial(card) == BodyTruthy(card) /\ Len(card.bodyText) > PartialThreshold

\* card.bodyText.substring is not a function when bodyText is an array
SubstringThrows(card) == IsArrayBody(card)

\* examples.filter(example => example !== null)
FilterNull(built) == SelectSeq(built, LAMBDA example : Has(example, "messages"))

(***************************************************************************)
(* Cards handed to convertCardsToTrainingData                              *)
(***************************************************************************)
MaxCards == 2

Sentence == "Growth depends on trade and trade depends on stable markets. "

RECURSIVE Repeat(_,_)
Repeat(text, times) == IF times = 0 THEN "" ELSE text \o Repeat(text, times - 1)

\* a body text of exactly the given length
BodyOfLength(length) ==
    Substring(Repeat(Sentence, length \div Len(Sentence) + 1), 0, length)

\* an element as extractBodyContent pushes it
Element(type, text, startPosition) ==
    [type |-> type, text |-> text, startPosition |-> startPosition,
     endPosition |-> startPosition + Len(text)]

\* a card as the parser returns it for a section
ParsedCard(section) == parseCardBlock(section, FALSE, <<0, 0, 0, 0, 0>>)[1]

CardExample == ParsedCard(SecExample)

\* a card with an id of its own, more than 100 characters and elements of every
\* type, matching 0, 2 and 3 signal families
CardLong ==
    [id |-> "rao-2022-trade-impact-card", tag |-> "Trade Impact", cite |-> "Rao 2022",
     bodyText |-> Sentence
                  \o "New evidence of 3 million jobs lost proves a 50% increase, which is critical.",
     formattedElements |->
        << Element("underline", "stable markets", 45),
           Element("strong", "evidence of 3 million", 65),
           Element("mark", "proves a 50% increase, which is critical", 97),
           Element("em", "Growth depends", 0),
           Element("highlight", "jobs lost", 87) >>]

Card100 ==
    [tag |-> "Exactly Hundred", cite |-> "Diaz 2017", bodyText |-> BodyOfLength(100),
     formattedElements |-> <<Element("underline", "stable markets", 45)>>]

\* a block whose body has 101 characters and runs of every type the parser
\* gives: <strong>, <em>, <u> and <mark> inside the first 60 characters and a
\* <u> run after them whose word occurs nowhere before
SecHundredOne ==
    "<h1>Hundred And One</h1><p class=\"cite\">Diaz 2017</p><p>"
    \o "<strong>Growth</strong> <em>depends</em>" \o Substring(BodyOfLength(88), 14, 45)
    \o "<u>stable</u> <mark>markets.</mark>" \o Substring(BodyOfLength(88), 60, 88)
    \o " over <u>decades</u></p>"

\* the card the parser returns for it
Card101 == ParsedCard(SecHundredOne)

\* a block with a class="cite" paragraph and a body of 50 characters without a run
SecNoSpans ==
    "<h1>No Spans</h1><p class=\"cite\">Kim 2018</p><p>" \o BodyOfLength(50) \o "</p>"

\* the card the parser returns for it
Card50 == ParsedCard(SecNoSpans)

\* an element without text and without endPosition
CardNoText ==
    [tag |-> "Broken Element", cite |-> "Kim 2018", bodyText |-> BodyOfLength(101),
     formattedElements |-> <<[type |-> "underline", startPosition |-> 0]>>]

\* a card with an id whose bodyText is an array of 101 one-character strings
CardArrayBody ==
    [id |-> "card-7", tag |-> "Array Body", cite |-> "Kim 2018",
     bodyText |-> BodyOfLength(101), bodyTextIsArray |-> TRUE,
     formattedElements |-> <<Element("underline", "stable markets", 45)>>]

TrainCards == {CardExample, CardLong, Card100, Card101, Card50, CardNoText, CardArrayBody}

CardLists == UNION {[1..n -> TrainCards] : n \in 1..MaxCards}

(***************************************************************************)
(* TrainingDataService.convertCardsToTrainingData: the for-of loop with    *)
(* its try / catch, and generateTrainingExamples inside it, one step per   *)
(* await                                                                   *)
(***************************************************************************)
ParserIdle ==
    /\ htmlContent = ""
    /\ engineThrowsOn = ""
    /\ pc = "idle"
    /\ callNo = 0
    /\ tagRegex = 0
    /\ fmtRegex = <<0, 0, 0, 0, 0>>
    /\ cardBlocks = <<>>
    /\ blockIdx = 0
    /\ cards = <<>>
    /\ returned = NotReturned
    /\ firstReturned = NotReturned

TrainInit ==
    /\ ParserIdle
    /\ inCards \in CardLists
    /\ tpc = "next"
    /\ cardIdx = 0
    /\ examples = <<>>
    /\ trainingExamples = <<>>
    /\ thrownAt = <<>>
    /\ trainReturned = NotReturned
    /\ CleanIdle
    /\ ContextIdle
    /\ AppIdle

\* the examples built before the exception are pushed all the same
KeptOnCatch(collected, built) == collected \o built

\* what the catch block leaves in trainingExamples: the examples of the failed
\* generateTrainingExamples call are local to it
Caught(collected, built) == collected

\* an exception leaves generateTrainingExamples and is caught in the loop
Throw(step) ==
    /\ trainingExamples' = Caught(trainingExamples, examples)
    /\ thrownAt' = Append(thrownAt, step)
    /\ cardIdx' = cardIdx + 1
    /\ tpc' = "next"
    /\ UNCHANGED examples

\* a step of generateTrainingExamples that built zero or one example
Built(new, next) ==
    /\ examples' = examples \o new
    /\ tpc' = next
    /\ UNCHANGED <<cardIdx, trainingExamples, thrownAt>>

\* for (const card of cards) { try { ... generateTrainingExamples(card): examples = []
NextCard ==
    /\ tpc = "next"
    /\ cardIdx < Len(inCards)
    /\ examples' = <<>>
    /\ tpc' = "full"
    /\ UNCHANGED <<inCards, cardIdx, trainingExamples, thrownAt, trainReturned>>
    /\ UNCHANGED <<parserVars, callVars, appVars>>

\* Example 1: Full card formatting
FullFormatting ==
    /\ tpc = "full"
    /\ LET card == inCards[cardIdx + 1]
       IN IF ~WantsFull(card) THEN Built(<<>>, "partial")
          ELSE IF createFormattingExampleThrows(card) THEN Throw("full")
          ELSE Built(<<createFormattingExample(card)>>, "partial")
    /\ UNCHANGED <<inCards, trainReturned>>
    /\ UNCHANGED <<parserVars, callVars, appVars>>

\* Example 2: Partial formatting
PartialFormatting ==
    /\ tpc = "partial"
    /\ LET card == inCards[cardIdx + 1]
       IN IF ~WantsPartial(card) THEN Built(<<>>, "context")
          ELSE IF SubstringThrows(card) THEN Throw("partial")
          ELSE IF createPartialFormattingExampleThrows(PartialCard(card), card)
               THEN Throw("partial")
          ELSE Built(<<createPartialFormattingExample(PartialCard(card), card)>>,
                     "context")
    /\ UNCHANGED <<inCards, trainReturned>>
    /\ UNCHANGED <<parserVars, callVars, appVars>>

\* Example 3: Context-aware formatting
ContextAware ==
    /\ tpc = "context"
    /\ LET card == inCards[cardIdx + 1]
       IN IF createContextAwareExampleThrows(card) THEN Throw("context")
          ELSE Built(<<createContextAwareExample(card)>>, "push")
    /\ UNCHANGED <<inCards, trainReturned>>
    /\ UNCHANGED <<parserVars, callVars, appVars>>

\* return examples.filter(...); trainingExamples.push(...examples)
PushExamples ==
    /\ tpc = "push"
    /\ trainingExamples' = trainingExamples \o FilterNull(examples)
    /\ thrownAt' = Append(thrownAt, "")
    /\ cardIdx' = cardIdx + 1
    /\ tpc' = "next"
    /\ UNCHANGED <<inCards, examples, trainReturned>>
    /\ UNCHANGED <<parserVars, callVars, appVars>>

\* return trainingExamples
ConvertReturn ==
    /\ tpc = "next"
    /\ cardIdx = Len(inCards)
    /\ trainReturned' = Resolved(trainingExamples)
    /\ tpc' = "done"
    /\ UNCHANGED <<inCards, cardIdx, examples, trainingExamples, thrownAt>>
    /\ UNCHANGED <<parserVars, callVars, appVars>>

TrainNext ==
    NextCard \/ FullFormatting \/ PartialFormatting \/ ContextAware \/ PushExamples
    \/ ConvertReturn

SpecTrain == TrainInit /\ [][TrainNext]_vars

(***************************************************************************)
(* DocumentParser.cleanText called on its own: the argument is null (or    *)
(* undefined) or a string of entities, fragments of entities, whitespace   *)
(* and letters.                                                            *)
(***************************************************************************)
MaxPieces == 3

Pieces ==
    <<"&amp;", "&lt;", "&gt;", "&quot;", "&#39;", "&nbsp;", "lt;", "amp;", "nbsp;",
      "&", " ", "\t\n", "a", "B">>

\* the strings of at most n pieces
RECURSIVE PiecesJoined(_)
PiecesJoined(n) ==
    IF n = 0 THEN {""}
    ELSE With(PiecesJoined(n - 1), LAMBDA shorter :
           shorter \cup {s \o Pieces[k] : s \in shorter, k \in 1..Len(Pieces)})

CleanArguments ==
    {NullArgument} \cup {StringArgument(s) : s \in PiecesJoined(MaxPieces)}

CleanInit ==
    /\ ParserIdle
    /\ TrainIdle
    /\ cleanArg \in CleanArguments
    /\ cleanResult = NotReturned
    /\ ContextIdle
    /\ AppIdle

\* if (!text) return ''; return text.replace(...)...trim()
CleanCall ==
    /\ ~cleanResult.done
    /\ cleanResult' = Resolved(IF cleanArg.isNull THEN "" ELSE cleanText(cleanArg.value))
    /\ UNCHANGED <<cleanArg, parserVars, trainVars, contextVars, appVars>>

CleanNext == CleanCall

SpecClean == CleanInit /\ [][CleanNext]_vars

(***************************************************************************)
(* TrainingDataService.inferDebateContext called on its own: the card has  *)
(* a tag and a cite with or without keywords and a bodyText of keywords    *)
(* and other words.                                                        *)
(***************************************************************************)
MaxWords == 2

\* every keyword of the seven buckets, a keyword in capitals and a word that is
\* no keyword
Words ==
    <<"climate", "environment", "warming", "economic", "gdp", "market",
      "security", "military", "defense", "health", "medical", "disease",
      "impact", "consequence", "result", "cause", "because", "leads to",
      "solve", "address", "fix", "WARMING", "trade">>

\* the texts of at most n words
RECURSIVE WordsJoined(_)
WordsJoined(n) ==
    IF n = 0 THEN {""}
    ELSE With(WordsJoined(n - 1), LAMBDA shorter :
           shorter \cup {s \o " " \o Words[k] : s \in shorter, k \in 1..Len(Words)})

\* tag and cite without a keyword, a tag with keywords of the last buckets, a
\* cite with keywords of middle buckets
Headers ==
    { [tag |-> "Trade", cite |-> "Kim 2018"],
      [tag |-> "Health Fix", cite |-> "Kim 2018"],
      [tag |-> "Trade", cite |-> "Security Because 2019"] }

ContextCards ==
    {[tag |-> header.tag, cite |-> header.cite, bodyText |-> body] :
        header \in Headers, body \in WordsJoined(MaxWords)}

ContextInit ==
    /\ ParserIdle
    /\ TrainIdle
    /\ CleanIdle
    /\ contextCard \in ContextCards
    /\ contextResult = NotReturned
    /\ AppIdle

\* const debateContext = this.inferDebateContext(card)
ContextCall ==
    /\ ~contextResult.done
    /\ contextResult' = Resolved(inferDebateContext(contextCard))
    /\ UNCHANGED <<contextCard, parserVars, trainVars, cleanVars, appVars>>

ContextNext == ContextCall

SpecContext == ContextInit /\ [][ContextNext]_vars

(***************************************************************************)
(* Documents for the Card Block Splitter: content with and without         *)
(* headings, blank content, and heading-led blocks around the length       *)
(* threshold of the filter.                                                *)
(***************************************************************************)
\* content without a heading, too short to pass the filter on its own
SecPreface == "<p>Preface</p>"

\* blank content
SecBlank == " \n "

\* a heading-led block whose trimmed length is exactly 50, with a line end after it
SecFifty == "<h2>Fifty</h2><p>" \o BodyOfLength(29) \o "</p>\n"

\* a heading-led block whose trimmed length is exactly 51
SecFiftyOne == "<h3>Fifty</h3><p>" \o BodyOfLength(30) \o "</p>"

SplitSections == <<SecPreface, SecBlank, SecFifty, SecFiftyOne, SecExample, SecIntro>>

SplitArrangements(n) ==
    {f \in [1..n -> 1..Len(SplitSections)] : \A i, j \in 1..n : f[i] = f[j] => i = j}

RECURSIVE SplitConcatenation(_,_)
SplitConcatenation(f, n) ==
    IF n = 0 THEN "" ELSE SplitConcatenation(f, n - 1) \o SplitSections[f[n]]

SplitDocuments ==
    UNION {{SplitConcatenation(f, n) : f \in SplitArrangements(n)} : n \in 0..MaxSections}

InitSplit ==
    /\ htmlContent \in SplitDocuments
    /\ engineThrowsOn = ""
    /\ pc = "idle"
    /\ callNo = 0
    /\ tagRegex = 0
    /\ fmtRegex = <<0, 0, 0, 0, 0>>
    /\ cardBlocks = <<>>
    /\ blockIdx = 0
    /\ cards = <<>>
    /\ returned = NotReturned
    /\ firstReturned = NotReturned
    /\ TrainIdle
    /\ CleanIdle
    /\ ContextIdle
    /\ AppIdle

SpecSplit == InitSplit /\ [][Next]_vars

(***************************************************************************)
(* Documents with formatting runs nested inside one another                *)
(***************************************************************************)
\* a block whose underlined run holds a bold word
SecNested ==
    "<h2>Nested Runs</h2><p class=\"cite\">Park 2020</p>"
    \o "<p>Prices <u>rise <b>very</b> fast</u> and <mark>hurt</mark> growth.</p>"

NestedSections == <<SecNested, SecExample, SecIntro>>

\* the documents of at most n of these sections
RECURSIVE NestedJoined(_)
NestedJoined(n) ==
    IF n = 0 THEN {""}
    ELSE With(NestedJoined(n - 1), LAMBDA shorter :
           shorter \cup {d \o NestedSections[k] : d \in shorter, k \in 1..Len(NestedSections)})

NestedDocuments == NestedJoined(MaxSections)

InitNested ==
    /\ htmlContent \in NestedDocuments
    /\ engineThrowsOn = ""
    /\ pc = "idle"
    /\ callNo = 0
    /\ tagRegex = 0
    /\ fmtRegex = <<0, 0, 0, 0, 0>>
    /\ cardBlocks = <<>>
    /\ blockIdx = 0
    /\ cards = <<>>
    /\ returned = NotReturned
    /\ firstReturned = NotReturned
    /\ TrainIdle
    /\ CleanIdle
    /\ ContextIdle
    /\ AppIdle

SpecNested == InitNested /\ [][Next]_vars

(***************************************************************************)
(* MBADebateBotApp: openDocument and scanDocument.  The handlers run on    *)
(* one thread: a step is the code between two awaits.  What the awaited    *)
(* services answer is left open: extractDebateCards resolves with cards or *)
(* rejects, convertCardsToTrainingData resolves with no to three examples  *)
(* per card, saveTrainingData resolves or rejects.                         *)
(***************************************************************************)
MaxRequests == 2

MaxScanCards == 1

\* a scanDocument run at one of its awaits, or ended
Run(at, found, converted) == [pc |-> at, cards |-> found, converted |-> converted]

\* the run has set isProcessing and not reached its finally block
InProgress(run) == run.pc \in {"extract", "convert", "save"}

\* if (!this.currentDocument)
NoDocument == currentDocument = "null"

\* the test is left out
ScanRefusedNever == FALSE

\* if (this.isProcessing)
ScanRefused == isProcessing

\* a service is called by the run
Called(run, service) == Append(serviceCalls, [run |-> run, service |-> service])

\* openDocument up to its first await
OpenDocument ==
    /\ openPc = "none"
    /\ openPc' = IF isProcessing THEN "none" ELSE "dialog"
    /\ UNCHANGED <<currentDocument, isProcessing, trainingData, scanRuns, serviceCalls>>
    /\ UNCHANGED <<serviceVars, monitorVars, formatVars>>

\* the file dialog settles: cancelled or failed, or a file is chosen and
\* loadDocument is called
DialogSettles ==
    /\ openPc = "dialog"
    /\ openPc' \in {"none", "load"}
    /\ UNCHANGED <<currentDocument, isProcessing, trainingData, scanRuns, serviceCalls>>
    /\ UNCHANGED <<serviceVars, monitorVars, formatVars>>

\* this.currentDocument = await this.documentParser.loadDocument(filePath), or
\* the catch block
LoadSettles ==
    /\ openPc = "load"
    /\ openPc' = "none"
    /\ currentDocument' \in {currentDocument, "document"}
    /\ UNCHANGED <<isProcessing, trainingData, scanRuns, serviceCalls>>
    /\ UNCHANGED <<serviceVars, monitorVars, formatVars>>

\* a click on scanDocument or a menu-scan-document event: scanDocument up to its
\* first await
ScanDocument ==
    /\ Len(scanRuns) < MaxRequests
    /\ IF NoDocument
       THEN /\ scanRuns' = Append(scanRuns, Run("no document", 0, <<>>))
            /\ UNCHANGED <<isProcessing, serviceCalls>>
       ELSE IF ScanRefused
       THEN /\ scanRuns' = Append(scanRuns, Run("refused", 0, <<>>))
            /\ UNCHANGED <<isProcessing, serviceCalls>>
       ELSE /\ isProcessing' = TRUE
            /\ scanRuns' = Append(scanRuns, Run("extract", 0, <<>>))
            /\ serviceCalls' = Called(Len(scanRuns) + 1, "extract")
    /\ UNCHANGED <<currentDocument, trainingData, openPc>>
    /\ UNCHANGED <<serviceVars, monitorVars, formatVars>>

\* the catch block returns without the finally block
FailedWithoutFinally(run) ==
    /\ scanRuns' = [scanRuns EXCEPT ![run].pc = "failed"]
    /\ UNCHANGED <<isProcessing, trainingData, serviceCalls>>

\* catch (error) { ... } finally { this.isProcessing = false; }
Failed(run) ==
    /\ scanRuns' = [scanRuns EXCEPT ![run].pc = "failed"]
    /\ isProcessing' = FALSE
    /\ UNCHANGED <<trainingData, serviceCalls>>

\* const cards = await this.documentParser.extractDebateCards(...); then
\* convertCardsToTrainingData(cards) is called
ExtractSettles(run) ==
    /\ scanRuns[run].pc = "extract"
    /\ \/ Failed(run)
       \/ \E found \in 0..MaxScanCards :
             /\ scanRuns' = [scanRuns EXCEPT ![run] = Run("convert", found, <<>>)]
             /\ serviceCalls' = Called(run, "convert")
             /\ UNCHANGED <<isProcessing, trainingData>>
    /\ UNCHANGED <<currentDocument, openPc>>
    /\ UNCHANGED <<serviceVars, monitorVars, formatVars>>

\* const trainingData = await ...convertCardsToTrainingData(cards); then
\* saveTrainingData(trainingData) is called
ConvertSettles(run) ==
    /\ scanRuns[run].pc = "convert"
    /\ \E count \in 0..(3 * scanRuns[run].cards) :
          /\ scanRuns' = [scanRuns EXCEPT ![run].pc = "save",
                                          ![run].converted =
                                              [n \in 1..count |-> <<run, n>>]]
    /\ serviceCalls' = Called(run, "save")
    /\ UNCHANGED <<currentDocument, isProcessing, trainingData, openPc>>
    /\ UNCHANGED <<serviceVars, monitorVars, formatVars>>

\* await ...saveTrainingData(trainingData); this.trainingData = [...]; finally
SaveSettles(run) ==
    /\ scanRuns[run].pc = "save"
    /\ \/ Failed(run)
       \/ /\ trainingData' = trainingData \o scanRuns[run].converted
          /\ scanRuns' = [scanRuns EXCEPT ![run].pc = "done"]
          /\ isProcessing' = FALSE
          /\ UNCHANGED serviceCalls
    /\ UNCHANGED <<currentDocument, openPc>>
    /\ UNCHANGED <<serviceVars, monitorVars, formatVars>>

ScanNext ==
    \/ OpenDocument
    \/ DialogSettles
    \/ LoadSettles
    \/ ScanDocument
    \/ \E run \in 1..Len(scanRuns) : ExtractSettles(run)
    \/ \E run \in 1..Len(scanRuns) : ConvertSettles(run)
    \/ \E run \in 1..Len(scanRuns) : SaveSettles(run)

ScanInit ==
    /\ ParserIdle
    /\ TrainIdle
    /\ CleanIdle
    /\ ContextIdle
    /\ AppIdle

SpecScan == ScanInit /\ [][ScanNext]_vars

\* every awaited promise of a run settles and its continuation is run
ScanFairness ==
    /\ WF_vars(\E run \in 1..Len(scanRuns) : ExtractSettles(run))
    /\ WF_vars(\E run \in 1..Len(scanRuns) : ConvertSettles(run))
    /\ WF_vars(\E run \in 1..Len(scanRuns) : SaveSettles(run))

SpecScanFair == ScanInit /\ [][ScanNext]_vars /\ ScanFairness

(***************************************************************************)
(* MBADebateBotApp: startTraining and monitorTrainingProgress.  A step is  *)
(* the code between two awaits.  The fine-tuning job runs at the API: its  *)
(* status moves from queued to running and ends as succeeded, failed or    *)
(* cancelled.  getFineTuningStatus resolves with the status the job has at *)
(* that moment, or rejects.                                                *)
(***************************************************************************)
MaxTrainings == 2

\* job.status of a job that has ended
TerminalStatuses == {"succeeded", "failed", "cancelled"}

\* the statuses a job can move to
JobSuccessors(status) ==
    CASE status = "queued" -> {"running", "cancelled"}
      [] status = "running" -> TerminalStatuses
      [] OTHER -> {}

\* a startTraining run: its position, the job it started, what checkProgress
\* waits for, the promise monitorTrainingProgress returned, and the calls of
\* resolve and reject
Training(at, job, poll, promise, settles) ==
    [pc |-> at, job |-> job, poll |-> poll, promise |-> promise, settles |-> settles]

\* a run that has no job
WithoutJob(at) == Training(at, "none", "none", "none", 0)

\* resolve(status) or reject(error): the first call settles the promise;
\* neither a query nor a timer is left
Settle(training, state) ==
    [training EXCEPT !.promise = IF training.promise = "pending" THEN state ELSE @,
                     !.settles = @ + 1,
                     !.poll = "stopped"]

\* the body of checkProgress after the await, for status.status = job
checkProgress(training) ==
    IF training.job = "succeeded"
    THEN Settle(training, "resolved")
    ELSE IF training.job = "failed"
    THEN Settle(training, "rejected")
    ELSE [training EXCEPT !.poll = "timer"]

\* a click on startTraining: startTraining up to its first await
StartTraining ==
    /\ Len(trainRuns) < MaxTrainings
    /\ trainRuns' = Append(trainRuns,
                           WithoutJob(IF Len(trainingData) = 0 THEN "no data" ELSE "prepare"))
    /\ UNCHANGED <<serviceVars, scanVars, formatVars>>

\* catch (error) { this.handleError('Training failed', error); ... }
TrainingFailed(run) ==
    trainRuns' = [trainRuns EXCEPT ![run].pc = "failed"]

\* await this.trainingDataService.prepareForFineTuning(this.trainingData)
PrepareSettles(run) ==
    /\ trainRuns[run].pc = "prepare"
    /\ \/ TrainingFailed(run)
       \/ trainRuns' = [trainRuns EXCEPT ![run].pc = "upload"]
    /\ UNCHANGED <<serviceVars, scanVars, formatVars>>

\* await this.openaiService.uploadTrainingFile(formattedData)
UploadSettles(run) ==
    /\ trainRuns[run].pc = "upload"
    /\ \/ TrainingFailed(run)
       \/ trainRuns' = [trainRuns EXCEPT ![run].pc = "start"]
    /\ UNCHANGED <<serviceVars, scanVars, formatVars>>

\* const jobId = await this.openaiService.startFineTuning(fileId); then
\* monitorTrainingProgress(jobId) makes the promise and calls checkProgress,
\* which runs up to its await
StartSettles(run) ==
    /\ trainRuns[run].pc = "start"
    /\ \/ TrainingFailed(run)
       \/ trainRuns' = [trainRuns EXCEPT
                           ![run] = Training("monitor", "queued", "query", "pending", 0)]
    /\ UNCHANGED <<serviceVars, scanVars, formatVars>>

\* the job moves on at the API
JobAdvances(run) ==
    /\ \E status \in JobSuccessors(trainRuns[run].job) :
          trainRuns' = [trainRuns EXCEPT ![run].job = status]
    /\ UNCHANGED <<serviceVars, scanVars, formatVars>>

\* const status = await this.openaiService.getFineTuningStatus(jobId) settles:
\* the catch block, or the rest of the try block
StatusSettles(run) ==
    /\ trainRuns[run].poll = "query"
    /\ \/ trainRuns' = [trainRuns EXCEPT ![run] = Settle(@, "rejected")]
       \/ trainRuns' = [trainRuns EXCEPT ![run] = checkProgress(@)]
    /\ UNCHANGED <<serviceVars, scanVars, formatVars>>

\* setTimeout(checkProgress, 10000) fires: checkProgress up to its await
TimerFires(run) ==
    /\ trainRuns[run].poll = "timer"
    /\ trainRuns' = [trainRuns EXCEPT ![run].poll = "query"]
    /\ UNCHANGED <<serviceVars, scanVars, formatVars>>

\* await this.monitorTrainingProgress(jobId) settles: the rest of the try
\* block, or the catch block
MonitorSettles(run) ==
    /\ trainRuns[run].pc = "monitor"
    /\ trainRuns[run].promise # "pending"
    /\ trainRuns' = [trainRuns EXCEPT
                        ![run].pc = IF trainRuns[run].promise = "resolved"
                                    THEN "completed" ELSE "failed"]
    /\ UNCHANGED <<serviceVars, scanVars, formatVars>>

MonitorNext ==
    \/ StartTraining
    \/ \E run \in 1..Len(trainRuns) : PrepareSettles(run)
    \/ \E run \in 1..Len(trainRuns) : UploadSettles(run)
    \/ \E run \in 1..Len(trainRuns) : StartSettles(run)
    \/ \E run \in 1..Len(trainRuns) : JobAdvances(run)
    \/ \E run \in 1..Len(trainRuns) : StatusSettles(run)
    \/ \E run \in 1..Len(trainRuns) : TimerFires(run)
    \/ \E run \in 1..Len(trainRuns) : MonitorSettles(run)

\* the app after construction, or after a scan that saved one example
MonitorInit ==
    /\ ParserIdle
    /\ TrainIdle
    /\ CleanIdle
    /\ ContextIdle
    /\ currentDocument \in {"null", "document"}
    /\ isProcessing = FALSE
    /\ trainingData = IF currentDocument = "null" THEN <<>> ELSE << <<1, 1>> >>
    /\ openPc = "none"
    /\ scanRuns = IF currentDocument = "null" THEN <<>>
                  ELSE <<Run("done", 1, << <<1, 1>> >>)>>
    /\ serviceCalls = IF currentDocument = "null" THEN <<>>
                      ELSE <<[run |-> 1, service |-> "extract"],
                             [run |-> 1, service |-> "convert"],
                             [run |-> 1, service |-> "save"]>>
    /\ trainRuns = <<>>
    /\ client = "null"
    /\ formatCalls = <<>>

SpecMonitor == MonitorInit /\ [][MonitorNext]_vars

\* of every run: the status query settles, the timer fires, and the
\* continuation of a settled await is run
MonitorFairness ==
    \A run \in 1..MaxTrainings :
       /\ WF_vars(run \in DOMAIN trainRuns /\ StatusSettles(run))
       /\ WF_vars(run \in DOMAIN trainRuns /\ TimerFires(run))
       /\ WF_vars(run \in DOMAIN trainRuns /\ MonitorSettles(run))

SpecMonitorFair == MonitorInit /\ [][MonitorNext]_vars /\ MonitorFairness

(***************************************************************************)
(* OpenAIService: setApiKey, cleanup and getCardFormatting.  What          *)
(* client.chat.completions.create answers is left open: a completion with  *)
(* content, one without, an error of status 429, or another error.         *)
(***************************************************************************)
MaxFormatCalls == 2

\* the retries of a call are counted up to this number
MaxCounted == 5

\* this.maxRetries = 3
maxRetries == 3

\* this.retryDelay = 1000
retryDelay == 1000

\* a getCardFormatting call: its position, the times it has called itself
\* again, and the delay of the sleep it waits for
FormatCall(at, retries, delay) == [pc |-> at, retries |-> retries, delay |-> delay]

\* the call's promise is settled
Settled(call) == call.pc \in {"resolved", "rejected"}

\* getCardFormatting(cardContent) up to its await: throws if (!this.client)
Attempt(retries) ==
    IF client = "null"
    THEN FormatCall("rejected", retries, 0)
    ELSE FormatCall("create", retries, 0)

\* setApiKey(apiKey)
SetApiKey ==
    /\ client' = "client"
    /\ UNCHANGED <<serviceVars, scanVars, monitorVars, formatCalls>>

\* cleanup()
Cleanup ==
    /\ client = "client"
    /\ client' = "null"
    /\ UNCHANGED <<serviceVars, scanVars, monitorVars, formatCalls>>

\* a caller calls getCardFormatting
GetCardFormatting ==
    /\ Len(formatCalls) < MaxFormatCalls
    /\ formatCalls' = Append(formatCalls, Attempt(0))
    /\ UNCHANGED <<serviceVars, scanVars, monitorVars, client>>

\* await this.client.chat.completions.create(...) settles: the parsed
\* response is returned, or the catch block sleeps on status 429 and throws
\* on every other error, 'No response from OpenAI API' included
CreateSettles(call) ==
    /\ formatCalls[call].pc = "create"
    /\ \/ formatCalls' = [formatCalls EXCEPT ![call].pc = "resolved"]
       \/ formatCalls' = [formatCalls EXCEPT ![call].pc = "sleep",
                                             ![call].delay = retryDelay]
       \/ formatCalls' = [formatCalls EXCEPT ![call].pc = "rejected"]
    /\ UNCHANGED <<serviceVars, scanVars, monitorVars, client>>

\* await this.sleep(this.retryDelay) settles:
\* return this.getCardFormatting(cardContent)
SleepSettles(call) ==
    /\ formatCalls[call].pc = "sleep"
    /\ formatCalls' = [formatCalls EXCEPT
                          ![call] = Attempt(IF formatCalls[call].retries < MaxCounted
                                            THEN formatCalls[call].retries + 1
                                            ELSE MaxCounted)]
    /\ UNCHANGED <<serviceVars, scanVars, monitorVars, client>>

FormatNext ==
    \/ SetApiKey
    \/ Cleanup
    \/ GetCardFormatting
    \/ \E call \in 1..Len(formatCalls) : CreateSettles(call)
    \/ \E call \in 1..Len(formatCalls) : SleepSettles(call)

FormatInit == ScanInit

SpecFormat == FormatInit /\ [][FormatNext]_vars

\* of every call: the request to the API settles and the sleep ends
FormatFairness ==
    \A call \in 1..MaxFormatCalls :
       /\ WF_vars(call \in DOMAIN formatCalls /\ CreateSettles(call))
       /\ WF_vars(call \in DOMAIN formatCalls /\ SleepSettles(call))

SpecFormatFair == FormatInit /\ [][FormatNext]_vars /\ FormatFairness

(***************************************************************************)
(* Properties of extractDebateCards (specification Spec)                   *)
(***************************************************************************)
\* every card of the sequence is a block of the document that starts after the
\* block of the card before it has ended
RECURSIVE BlocksInOrder(_,_,_)
BlocksInOrder(html, cardSeq, from) ==
    IF cardSeq = <<>> THEN TRUE
    ELSE With(IndexOfFrom(html, cardSeq[1].rawHtml, from), LAMBDA at :
           /\ at # -1
           /\ BlocksInOrder(html, Tail(cardSeq), at + Len(cardSeq[1].rawHtml)))

\* C1: the cards collected and returned by extractDebateCards are in document
\* order: a card whose block starts earlier in the HTML comes earlier in the
\* sequence, whatever blocks were dropped in between
DocumentOrder ==
    /\ BlocksInOrder(htmlContent, cards, 0)
    /\ returned.done => BlocksInOrder(htmlContent, returned.value, 0)

\* two cards returned around a block that was parsed and dropped
DocumentOrderWitness ==
    /\ pc = "idle" /\ returned.done
    /\ Len(cardBlocks) = 3 /\ Len(returned.value) = 2
    /\ returned.value[1].rawHtml = cardBlocks[1]
    /\ returned.value[2].rawHtml = cardBlocks[3]

\* C2: every returned card has a tag longer than 2, a bodyText longer than 20 and
\* a cite or at least one span; no returned card has the tag "Hi"
ValidityInvariant ==
    returned.done =>
       \A n \in 1..Len(returned.value) :
          /\ Len(returned.value[n].tag) > 2
          /\ Len(returned.value[n].bodyText) > 20
          /\ (returned.value[n].cite # ""
              \/ Len(returned.value[n].formattedElements) >= 1)
          /\ returned.value[n].tag # "Hi"

\* a call that parsed the "Hi" block, with its four runs, and returned other cards
ValidityWitness ==
    /\ pc = "idle" /\ returned.done
    /\ \E n \in 1..Len(cardBlocks) : StartsAt(cardBlocks[n], 0, "<h2>Hi</h2>")
    /\ Len(returned.value) >= 1

ShapedParts == {ExampleParts, TightParts}

\* the body paragraph with its tags removed
TagsRemoved(parts) ==
    parts.before \o parts.underlined \o parts.between \o parts.marked \o parts.after

\* the body paragraph with a space in place of every tag, whitespace collapsed
\* and the ends trimmed
TagsToSpaces(parts) ==
    Trim(CollapseWhiteSpace(" " \o parts.before \o " " \o parts.underlined \o " "
                            \o parts.between \o " " \o parts.marked \o " "
                            \o parts.after \o " "))

\* what a block of the shape parses to, for a given reading of its body
ShapeParsesTo(card, parts, body) ==
    /\ card.tag = parts.heading
    /\ card.cite = parts.cite
    /\ card.bodyText = body
    /\ ~Includes(card.bodyText, parts.heading)
    /\ ~Includes(card.bodyText, parts.cite)
    /\ Len(card.formattedElements) = 2
    /\ card.formattedElements[1].type = "underline"
    /\ card.formattedElements[1].text = parts.underlined
    /\ card.formattedElements[2].type = "highlight"
    /\ card.formattedElements[2].text = parts.marked
    /\ card.formattedElements[1].startPosition <= card.formattedElements[2].startPosition

\* C3 as stated: a block of heading, class="cite" paragraph and body paragraph
\* with a <u> run then a <mark> run parses to tag = heading text, cite = cite
\* text, bodyText = the body paragraph with all tags removed, and an underline
\* span then a highlight span with the inner texts
ShapedBlockTagsRemoved ==
    returned.done =>
       \A n \in 1..Len(returned.value) : \A parts \in ShapedParts :
          returned.value[n].rawHtml = ShapedBlock(parts)
             => ShapeParsesTo(returned.value[n], parts, TagsRemoved(parts))

\* C3 amended: the same, with bodyText = the body paragraph with every tag
\* replaced by a space, runs of whitespace collapsed and the ends trimmed
ShapedBlockTagsToSpaces ==
    returned.done =>
       \A n \in 1..Len(returned.value) : \A parts \in ShapedParts :
          returned.value[n].rawHtml = ShapedBlock(parts)
             => ShapeParsesTo(returned.value[n], parts, TagsToSpaces(parts))

\* the block whose runs touch the words around them was returned as a card
ShapedBlockWitness ==
    /\ returned.done
    /\ \E n \in 1..Len(returned.value) : returned.value[n].rawHtml = SecTight
    /\ \E n \in 1..Len(returned.value) : returned.value[n].rawHtml = SecExample

\* the pass of the for-of loop that found an element, from its opening tag
PassOf(element) ==
    IF StartsAtI(element.htmlMatch, 0, "<u") THEN 1
    ELSE IF StartsAtI(element.htmlMatch, 0, "<em") \/ StartsAtI(element.htmlMatch, 0, "<i")
    THEN 2
    ELSE IF StartsAtI(element.htmlMatch, 0, "<strong")
            \/ StartsAtI(element.htmlMatch, 0, "<b")
    THEN 3
    ELSE IF StartsAtI(element.htmlMatch, 0, "<mark") THEN 4
    ELSE 5

\* where the markup of an element stands in the block
MarkupOffset(card, n) == IndexOfFrom(card.rawHtml, card.formattedElements[n].htmlMatch, 0)

\* C4: in every returned card formattedElements is in ascending startPosition
\* order, and elements with equal startPosition are in discovery order: by pass
\* (underline, emphasis, strong, mark, coloured span), then by place in the block
SortedByStartPosition ==
    returned.done =>
       \A n \in 1..Len(returned.value) :
          \A i, j \in 1..Len(returned.value[n].formattedElements) :
             i < j =>
                With(returned.value[n].formattedElements, LAMBDA fe :
                  /\ fe[i].startPosition <= fe[j].startPosition
                  /\ fe[i].startPosition = fe[j].startPosition
                       => \/ PassOf(fe[i]) < PassOf(fe[j])
                          \/ /\ PassOf(fe[i]) = PassOf(fe[j])
                             /\ MarkupOffset(returned.value[n], i)
                                  <= MarkupOffset(returned.value[n], j))

\* a returned card in which an element found by an earlier pass stands later in
\* the block than an element found by a later pass
SortedWitness ==
    /\ returned.done
    /\ \E n \in 1..Len(returned.value) :
          \E i, j \in 1..Len(returned.value[n].formattedElements) :
             /\ i < j
             /\ MarkupOffset(returned.value[n], i) > MarkupOffset(returned.value[n], j)

\* C5: every call of extractDebateCards on the document returns the card
\* sequence the first call returned, whatever calls ran in between and whatever
\* the pattern objects of earlier calls were left at
SameCardsOnEveryCall == returned.done => returned.value = firstReturned.value

\* a later call has returned cards with underline spans after a call that left
\* the underline pattern of its last block in the middle of a scan
SameCardsWitness ==
    /\ pc = "idle" /\ returned.done /\ callNo = 2
    /\ fmtRegex[1] > 0
    /\ \E n \in 1..Len(returned.value) :
          \E i \in 1..Len(returned.value[n].formattedElements) :
             returned.value[n].formattedElements[i].type = "underline"

\* the valid cards of the blocks other than the one the parse failed on, each
\* block parsed on its own
CardsOfOtherBlocks ==
    With(SelectSeq(cardBlocks, LAMBDA block : block # engineThrowsOn), LAMBDA others :
      SelectSeq([n \in 1..Len(others) |-> ParsedCard(others[n])], isValidCard))

\* C10: when parsing a block fails, extractDebateCards still returns, and what it
\* returns is the valid cards of all the other blocks, as they parse on their
\* own, in block order
BlockFailureIsolated ==
    (/\ pc = "idle" /\ returned.done
     /\ \E n \in 1..Len(cardBlocks) : cardBlocks[n] = engineThrowsOn) =>
       returned.value = CardsOfOtherBlocks

\* the parse failed on a block in the middle and the blocks around it gave cards
BlockFailureWitness ==
    /\ pc = "idle" /\ returned.done
    /\ Len(cardBlocks) = 3 /\ cardBlocks[2] = engineThrowsOn
    /\ Len(returned.value) = 2

(***************************************************************************)
(* Properties of convertCardsToTrainingData (specification SpecTrain)      *)
(***************************************************************************)
\* the card generateTrainingExamples is working on
CurrentCard == inCards[cardIdx + 1]

TypesOf(built) == [n \in 1..Len(built) |-> built[n].metadata.type]

\* which of the three signal families match a text
Families(text) ==
    <<SomeIncluded(keyTerms, text), StatisticTest(text), SomeIncluded(strongLanguage, text)>>

FamilyCount(text) == Cardinality({f \in 1..3 : Families(text)[f]})

ExpectedPriority(text) == MaxOf({1, 3 - FamilyCount(text)})

\* the baseline after the decrements of the first n families of an order
RECURSIVE DecrementedInOrder(_,_,_)
DecrementedInOrder(text, order, n) ==
    IF n = 0 THEN DefaultPriority
    ELSE Decrement(DecrementedInOrder(text, order, n - 1), Families(text)[order[n]])

\* C6: the priority of every span in the response of the context example is
\* max(1, 3 - k), k the number of signal families matching the span text; it is
\* in 1..5, and the decrements give it in whichever order they are applied
PriorityFromFamilies ==
    tpc = "push" =>
       \A n \in 1..Len(CurrentCard.formattedElements) :
          With(CurrentCard.formattedElements[n], LAMBDA element :
            /\ ExpectedPriority(element.text) \in 1..5
            /\ Includes(examples[Len(examples)].messages[3].content,
                        StringifySpan([text |-> element.text,
                                       start |-> element.startPosition,
                                       end |-> element.endPosition,
                                       priority |-> ExpectedPriority(element.text)]))
            /\ \A order \in Permutations({1, 2, 3}) :
                  ClampPriority(DecrementedInOrder(element.text, order, 3))
                     = ExpectedPriority(element.text))

\* the examples of a card are built whose spans match none and all three families
PriorityWitness ==
    /\ tpc = "push"
    /\ \E n \in 1..Len(CurrentCard.formattedElements) :
          FamilyCount(CurrentCard.formattedElements[n].text) = 3
    /\ \E n \in 1..Len(CurrentCard.formattedElements) :
          FamilyCount(CurrentCard.formattedElements[n].text) = 0

\* the example types a card is to yield, in order
ExpectedTypes(card) ==
    (IF card.bodyText # "" /\ Len(card.formattedElements) >= 1
     THEN <<"full_formatting">> ELSE <<>>)
    \o (IF Len(card.bodyText) > 100 THEN <<"partial_formatting">> ELSE <<>>)
    \o <<"context_aware_formatting">>

\* C7: generateTrainingExamples returns a full_formatting example iff the body
\* is non-empty and there is a span, then a partial_formatting example iff the
\* body is longer than 100, then one context_aware_formatting example: three
\* examples for a card with a span and more than 100 characters, one for a card
\* with no span and 50 characters
ExamplesInOrder ==
    tpc = "push" =>
       /\ TypesOf(FilterNull(examples)) = ExpectedTypes(CurrentCard)
       /\ (Len(CurrentCard.formattedElements) >= 1 /\ Len(CurrentCard.bodyText) > 100)
             => Len(FilterNull(examples)) = 3
       /\ (Len(CurrentCard.formattedElements) = 0 /\ Len(CurrentCard.bodyText) = 50)
             => Len(FilterNull(examples)) = 1

\* a card gave three examples and the next card, 50 characters without a span, one
ExamplesInOrderWitness ==
    /\ tpc = "push" /\ cardIdx = 1
    /\ Len(trainingExamples) = 3
    /\ Len(CurrentCard.bodyText) = 50 /\ Len(CurrentCard.formattedElements) = 0
    /\ Len(examples) = 1

PartialExamples(built) ==
    SelectSeq(built, LAMBDA example : example.metadata.type = "partial_formatting")

\* C8: a card whose bodyText has 100 characters yields no partial_formatting
\* example and a card whose bodyText has 101 characters yields exactly one
StrictPartialThreshold ==
    tpc = "push" =>
       /\ Len(CurrentCard.bodyText) = 100 => Len(PartialExamples(FilterNull(examples))) = 0
       /\ Len(CurrentCard.bodyText) = 101 => Len(PartialExamples(FilterNull(examples))) = 1

\* the examples of a card of 101 characters are built after those of one of 100
StrictPartialWitness ==
    /\ tpc = "push" /\ cardIdx = 1
    /\ thrownAt = <<"">>
    /\ Len(inCards[1].bodyText) = 100
    /\ Len(CurrentCard.bodyText) = 101
    /\ Len(PartialExamples(examples)) = 1

\* the examples a card yields when it is converted on its own
AloneExamples(card) ==
    (IF WantsFull(card) THEN <<createFormattingExample(card)>> ELSE <<>>)
    \o (IF WantsPartial(card)
        THEN <<createPartialFormattingExample(PartialCard(card), card)>> ELSE <<>>)
    \o <<createContextAwareExample(card)>>

\* what the first n cards are to contribute
RECURSIVE Contributions(_)
Contributions(n) ==
    IF n = 0 THEN <<>>
    ELSE Contributions(n - 1)
         \o (IF thrownAt[n] # "" THEN <<>> ELSE AloneExamples(inCards[n]))

\* C9: a card whose synthesis throws contributes nothing to trainingExamples,
\* every other card contributes the examples it yields on its own, in card
\* order, and the call returns what was collected after the last card
CardFailureIsolated ==
    tpc \in {"next", "done"} =>
       /\ Len(thrownAt) = cardIdx
       /\ trainingExamples = Contributions(cardIdx)
       /\ tpc = "done" => /\ cardIdx = Len(inCards)
                          /\ trainReturned = Resolved(trainingExamples)

\* the call has returned the examples of the first card after the second card
\* threw in its partial step, with its full example already built
CardFailureWitness ==
    /\ tpc = "done"
    /\ thrownAt = <<"", "partial">>
    /\ examples # <<>>
    /\ trainReturned.done /\ trainReturned.value # <<>>

(***************************************************************************)
(* Properties of cleanText (specification SpecClean)                       *)
(***************************************************************************)
\* the six entities of the contract and the characters they stand for
EntityNames == <<"&nbsp;", "&amp;", "&lt;", "&gt;", "&quot;", "&#39;">>

EntityChars == <<" ", "&", "<", ">", "\"", "'">>

\* the text with every entity occurrence decoded, read once from left to right
RECURSIVE DecodedOnce(_)
DecodedOnce(s) ==
    IF s = "" THEN ""
    ELSE With({n \in 1..Len(EntityNames) : StartsAt(s, 0, EntityNames[n])}, LAMBDA at :
           IF at = {} THEN CharAt(s, 0) \o DecodedOnce(Substring(s, 1, Len(s)))
           ELSE EntityChars[MinOf(at)]
                \o DecodedOnce(Substring(s, Len(EntityNames[MinOf(at)]), Len(s))))

\* every whitespace character is a single space between two other characters
SingleSpaced(s) ==
    \A k \in 0..(Len(s) - 1) :
       CharAt(s, k) \in WhiteSpace =>
          /\ CharAt(s, k) = " "
          /\ k > 0 /\ k < Len(s) - 1
          /\ CharAt(s, k + 1) \notin WhiteSpace

\* C11: cleanText returns, for null and for the empty string, the empty string,
\* and for every other string the string with the six entities decoded, every
\* run of whitespace collapsed to one space and no whitespace at either end
CleanTextContract ==
    cleanResult.done =>
       IF cleanArg.isNull THEN cleanResult.value = ""
       ELSE /\ cleanArg.value = "" => cleanResult.value = ""
            /\ SingleSpaced(cleanResult.value)
            /\ cleanResult.value = Trim(CollapseWhiteSpace(DecodedOnce(cleanArg.value)))

(***************************************************************************)
(* Properties of splitIntoCardBlocks (specification SpecSplit)             *)
(***************************************************************************)
\* the document holds no opening h1, h2 or h3 tag at all
NoHeading(html) == \A k \in 0..(Len(html) - 1) : AltsAt(html, k, HeadingOpens) = {}

\* C12 as stated: a document without a heading gives zero blocks and zero cards,
\* whatever its length
NoHeadingNoBlocks ==
    (callNo > 0 /\ NoHeading(htmlContent)) =>
       /\ cardBlocks = <<>>
       /\ cards = <<>>
       /\ returned.done => returned.value = <<>>

\* C12 amended: a document without a heading gives one block, the whole
\* document, when its trimmed length is greater than 50 and no block otherwise,
\* and in both cases zero cards
NoHeadingNoCards ==
    (callNo > 0 /\ NoHeading(htmlContent)) =>
       /\ cardBlocks = IF Len(Trim(htmlContent)) > 50 THEN <<htmlContent>> ELSE <<>>
       /\ cards = <<>>
       /\ returned.done => returned.value = <<>>

\* a call has returned on a document without a heading that was parsed as one block
NoHeadingWitness ==
    /\ pc = "idle" /\ returned.done
    /\ NoHeading(htmlContent)
    /\ cardBlocks = <<htmlContent>>
    /\ blockIdx = 1

\* splitIntoCardBlocks has just returned the blocks of the document
SplitReturned == pc = "loop" /\ blockIdx = 0

\* the headings of the document, from left to right
Headings(html) == AllMatches(html, tagPattern, 0)

\* the content before the first heading (the whole document without one), when
\* it is not blank
LeadingBlock(html) ==
    With(IF Headings(html) = <<>> THEN Len(html) ELSE Headings(html)[1].index,
         LAMBDA first : IF Trim(Substring(html, 0, first)) # ""
                        THEN <<Substring(html, 0, first)>> ELSE <<>>)

\* from every heading to the next heading, or to the end of the document
HeadingBlocks(html) ==
    With(Headings(html), LAMBDA h :
      [k \in 1..Len(h) |->
          Substring(html, h[k].index, IF k < Len(h) THEN h[k + 1].index ELSE Len(html))])

RECURSIVE JoinedBlocks(_)
JoinedBlocks(blocks) ==
    IF blocks = <<>> THEN "" ELSE blocks[1] \o JoinedBlocks(Tail(blocks))

\* C16: when the splitter returns, the blocks before the length filter are, in order, the non-blank content
\* before the first heading and then one block per heading, from the start of
\* the heading to the start of the next heading or the end of the document;
\* joined they are the document without its blank leading content, so nothing
\* is lost, duplicated or shared, and only a leading block lacks a heading
PartitionedInOrder ==
    SplitReturned =>
       With(CandidateBlocks(htmlContent, 0).blocks, LAMBDA blocks :
         With(Len(htmlContent) - Len(JoinedBlocks(blocks)), LAMBDA skipped :
           /\ blocks = LeadingBlock(htmlContent) \o HeadingBlocks(htmlContent)
           /\ skipped >= 0
           /\ Trim(Substring(htmlContent, 0, skipped)) = ""
           /\ JoinedBlocks(blocks) = Substring(htmlContent, skipped, Len(htmlContent))
           /\ \A n \in 1..Len(blocks) :
                 /\ n > 1 => MatchAt(blocks[n], 0, tagPattern) # NoMatch
                 /\ FirstMatch(blocks[n], 1, tagPattern) = NoMatch
           /\ \A n \in 1..Len(cardBlocks) : \E m \in 1..Len(blocks) : cardBlocks[n] = blocks[m]))

\* a document split into a leading block without a heading and two heading-led
\* blocks, one of which passed the filter
PartitionedWitness ==
    /\ SplitReturned
    /\ With(CandidateBlocks(htmlContent, 0).blocks, LAMBDA blocks :
          /\ Len(blocks) = 3
          /\ MatchAt(blocks[1], 0, tagPattern) = NoMatch
          /\ MatchAt(blocks[3], 0, tagPattern) # NoMatch)
    /\ Len(cardBlocks) = 1

\* the number of characters from the first to the last that is not whitespace
TrimmedLength(block) ==
    With({k \in 0..(Len(block) - 1) : CharAt(block, k) \notin WhiteSpace}, LAMBDA inked :
      IF inked = {} THEN 0 ELSE MaxOf(inked) - MinOf(inked) + 1)

\* the blocks of the document before the filter, from its headings
Partition(html) == LeadingBlock(html) \o HeadingBlocks(html)

\* C17: splitIntoCardBlocks returns exactly the blocks of the partition whose
\* trimmed length is 51 or more, unchanged and in their order: a block of
\* trimmed length 50 is not returned, one of 51 is, and the blocks around a
\* dropped block keep their boundaries
FilteredAboveFifty ==
    SplitReturned =>
       /\ cardBlocks = SelectSeq(Partition(htmlContent),
                                 LAMBDA block : TrimmedLength(block) >= 51)
       /\ \A n \in 1..Len(Partition(htmlContent)) :
             With(Partition(htmlContent)[n], LAMBDA block :
               /\ TrimmedLength(block) = 50 => \A m \in 1..Len(cardBlocks) : cardBlocks[m] # block
               /\ TrimmedLength(block) = 51 => \E m \in 1..Len(cardBlocks) : cardBlocks[m] = block)

\* a block of trimmed length 50 was dropped between two blocks that were
\* returned, one of them of trimmed length 51
FilteredWitness ==
    /\ SplitReturned
    /\ Len(Partition(htmlContent)) = 3 /\ Len(cardBlocks) = 2
    /\ TrimmedLength(Partition(htmlContent)[2]) = 50
    /\ cardBlocks[1] = Partition(htmlContent)[1]
    /\ cardBlocks[2] = Partition(htmlContent)[3]
    /\ TrimmedLength(cardBlocks[2]) = 51

(***************************************************************************)
(* Properties of the spans of returned cards (specification Spec)          *)
(***************************************************************************)
\* all spans of the returned cards
ReturnedSpans ==
    IF ~returned.done THEN {}
    ELSE UNION {{returned.value[n].formattedElements[i] :
                    i \in 1..Len(returned.value[n].formattedElements)} :
                n \in 1..Len(returned.value)}

\* C13 as stated: the type of every span of a returned card is one of
\* underline, emphasis, highlight
SpanTypesOfThree ==
    \A span \in ReturnedSpans : span.type \in {"underline", "emphasis", "highlight"}

\* C13 amended: the type of every span of a returned card is one of underline,
\* emphasis, strong, highlight
SpanTypesOfFour ==
    \A span \in ReturnedSpans :
       span.type \in {"underline", "emphasis", "strong", "highlight"}

\* a card was returned with spans of all four types
SpanTypesWitness ==
    \A type \in {"underline", "emphasis", "strong", "highlight"} :
       \E span \in ReturnedSpans : span.type = type

\* the block with the text of one match cut out
CutOut(block, match) ==
    IF match = NoMatch THEN block
    ELSE Substring(block, 0, match.index) \o Substring(block, match.end, Len(block))

\* the block without the citation paragraph and the heading that cite and tag
\* were taken from
WithoutTagAndCite(block) ==
    With(CutOut(block, CiteMatch(block)), LAMBDA cut :
      CutOut(cut, Match(cut, TagTextPattern)))

\* the text of a piece of HTML: tags to spaces, entities decoded, whitespace
\* collapsed, ends trimmed
Flattened(html) == cleanText(CollapseWhiteSpace(ReplaceTags(html, " ")))

\* C18: in every returned card the heading and the citation paragraph that tag
\* and cite were taken from give no text to bodyText and no span to
\* formattedElements, for a class="cite" paragraph as well as for a paragraph
\* recognised by its italic or bold run and year
HeadingAndCiteRemoved ==
    returned.done =>
       \A n \in 1..Len(returned.value) :
          With(returned.value[n], LAMBDA card :
            /\ card.bodyText = Flattened(WithoutTagAndCite(card.rawHtml))
            /\ \A i \in 1..Len(card.formattedElements) :
                  Includes(WithoutTagAndCite(card.rawHtml),
                           card.formattedElements[i].htmlMatch))

\* the markup of the span holds no tag but its own opening and closing tag
Unnested(span) ==
    IndexOfFrom(span.htmlMatch, "<", IndexOfFrom(span.htmlMatch, "<", 1) + 1) = -1

\* C19: in a returned card whose formatting markers do not nest, every span's
\* startPosition is an offset of its text in bodyText, so that
\* bodyText.substring(startPosition, endPosition) is the span's text, and a span
\* whose markup stands later in the block has a larger startPosition
SpansPositionedInBody ==
    returned.done =>
       \A n \in 1..Len(returned.value) :
          With(returned.value[n], LAMBDA card :
            (\A i \in 1..Len(card.formattedElements) : Unnested(card.formattedElements[i]))
            => \A i, j \in 1..Len(card.formattedElements) :
                  With(card.formattedElements[i], LAMBDA span :
                    /\ span.endPosition <= Len(card.bodyText)
                    /\ Substring(card.bodyText, span.startPosition, span.endPosition)
                          = span.text
                    /\ MarkupOffset(card, i) < MarkupOffset(card, j)
                          => span.startPosition < card.formattedElements[j].startPosition))

\* C20: every span of a returned card has 0 <= startPosition <= endPosition and
\* endPosition - startPosition equal to the length of its text
SpanBoundsMatchText ==
    \A span \in ReturnedSpans :
       /\ 0 <= span.startPosition
       /\ span.startPosition <= span.endPosition
       /\ span.endPosition - span.startPosition = Len(span.text)

\* a card was returned with spans of different, positive lengths
SpanBoundsWitness ==
    \E a, b \in ReturnedSpans :
       /\ Len(a.text) > 0 /\ Len(b.text) > Len(a.text)
       /\ b.endPosition > a.endPosition

(***************************************************************************)
(* Properties of the examples of one card (specification SpecTrain)        *)
(***************************************************************************)
\* the card is one extractDebateCards can return: the valid card of a block the
\* splitter keeps
FromParser(card) ==
    /\ Has(card, "rawHtml")
    /\ splitIntoCardBlocks(card.rawHtml, 0).blocks = <<card.rawHtml>>
    /\ card = ParsedCard(card.rawHtml)
    /\ isValidCard(card)

\* C14 as stated: every valid card yields 2 or 3 examples
TwoOrThreeExamples ==
    (tpc = "push" /\ FromParser(CurrentCard)) => Len(FilterNull(examples)) \in {2, 3}

\* C14 amended: every valid card yields 1, 2 or 3 examples and its synthesis
\* never fails: the context-aware example, one more when the card has a span
\* and one more when its body is longer than 100 characters
OneToThreeExamples ==
    /\ (tpc = "push" /\ FromParser(CurrentCard)) =>
          /\ Len(FilterNull(examples)) \in {1, 2, 3}
          /\ Len(FilterNull(examples))
                = 1 + (IF Len(CurrentCard.formattedElements) >= 1 THEN 1 ELSE 0)
                    + (IF Len(CurrentCard.bodyText) > 100 THEN 1 ELSE 0)
    /\ \A n \in 1..Len(thrownAt) : FromParser(inCards[n]) => thrownAt[n] = ""

\* after a valid card that gave three examples, the examples of a valid card
\* with a cite, no span and a short body are built: it is one example
OneToThreeWitness ==
    /\ tpc = "push" /\ cardIdx = 1
    /\ FromParser(inCards[1]) /\ Len(trainingExamples) = 3
    /\ FromParser(CurrentCard) /\ Len(examples) = 1

\* two cards have the same tag, cite and first 50 characters of bodyText
SameIdFields(a, b) ==
    /\ Interpolate(a, "tag") = Interpolate(b, "tag")
    /\ Interpolate(a, "cite") = Interpolate(b, "cite")
    /\ Substring(BodyString(a), 0, Least(50, Len(BodyString(a))))
         = Substring(BodyString(b), 0, Least(50, Len(BodyString(b))))

PartialBuilt ==
    /\ tpc = "context"
    /\ examples # <<>>
    /\ examples[Len(examples)].metadata.type = "partial_formatting"

\* text occurs somewhere in body
OccursIn(text, body) ==
    \E k \in 0..(Len(body) - Len(text)) : Substring(body, k, k + Len(text)) = text

\* the spans of the card, of the given types, whose text occurs in body, in the
\* order of the card
SpansWithin(card, types, body) ==
    With(SelectSeq(card.formattedElements,
                   LAMBDA element : /\ element.type \in types
                                     /\ Has(element, "text")
                                     /\ OccursIn(element.text, body)),
         LAMBDA within :
           [n \in 1..Len(within) |->
               [text |-> within[n].text, start |-> within[n].startPosition,
                end |-> within[n].endPosition,
                priority |-> ExpectedPriority(within[n].text)]])

\* the response text up to its reasoning, for the three arrays of spans
ArraysText(underline, emphasis, highlight) ==
    "{\n  \"underline\": " \o StringifyArray(underline)
    \o ",\n  \"emphasis\": " \o StringifyArray(emphasis)
    \o ",\n  \"highlight\": " \o StringifyArray(highlight)
    \o ",\n  \"reasoning\": "

\* C21: the partial_formatting example is built from the first
\* floor(0.6 * bodyText.length) characters of bodyText, and the arrays of its
\* response hold exactly the spans of the full card whose text is a substring
\* of that truncated body, in the order of the full card
PartialFromSixtyPercent ==
    PartialBuilt =>
       With(examples[Len(examples)].messages, LAMBDA messages :
         \E size \in 0..Len(CurrentCard.bodyText) :
            /\ size * 10 <= Len(CurrentCard.bodyText) * 6
            /\ Len(CurrentCard.bodyText) * 6 < (size + 1) * 10
            /\ With(Substring(CurrentCard.bodyText, 0, size), LAMBDA truncated :
                 /\ Includes(messages[2].content, "BODY TEXT:\n" \o truncated \o "\n\n")
                 /\ StartsAt(messages[3].content, 0,
                             ArraysText(SpansWithin(CurrentCard, UnderlineTypes, truncated),
                                        SpansWithin(CurrentCard, EmphasisTypes, truncated),
                                        SpansWithin(CurrentCard, HighlightTypes, truncated)))))

\* the partial example of a card is built whose truncated body holds two spans
\* of the emphasis array and the first of its two underlined spans
PartialWitness ==
    /\ PartialBuilt
    /\ With(Substring(CurrentCard.bodyText, 0, (Len(CurrentCard.bodyText) * 6) \div 10),
            LAMBDA truncated :
              /\ Len(SpansWithin(CurrentCard, EmphasisTypes, truncated)) = 2
              /\ Len(SpansWithin(CurrentCard, UnderlineTypes, truncated)) = 1
              /\ Len(SpansWithin(CurrentCard, UnderlineTypes, CurrentCard.bodyText)) = 2
              /\ ~OccursIn(CurrentCard.formattedElements[2].text, truncated))

(***************************************************************************)
(* Properties of the response arrays (specification SpecTrain)             *)
(***************************************************************************)
\* the array each element type goes to
ArrayOfType ==
    [underline |-> "underline",
     emphasis |-> "emphasis", em |-> "emphasis", strong |-> "emphasis",
     highlight |-> "highlight", mark |-> "highlight"]

\* the elements of the card an array is to hold, as spans, in card order
SpansOfArray(card, array) ==
    With(SelectSeq(card.formattedElements,
                   LAMBDA element : /\ element.type \in DOMAIN ArrayOfType
                                     /\ ArrayOfType[element.type] = array),
         LAMBDA chosen :
           [n \in 1..Len(chosen) |->
               [text |-> chosen[n].text, start |-> chosen[n].startPosition,
                end |-> chosen[n].endPosition,
                priority |-> ExpectedPriority(chosen[n].text)]])

\* the reasoning quotes the count after the verb of an array that is not empty
\* and does not name the verb of an empty one
CountQuoted(reasoning, verb, count) ==
    IF count = 0 THEN ~Includes(reasoning, verb)
    ELSE Includes(reasoning, verb \o " " \o ToString(count) \o " ")

\* the full and the context-aware examples among those built
WholeCardExamples(built) ==
    SelectSeq(built, LAMBDA example : example.metadata.type # "partial_formatting")

\* C22: in the response built for a card of the parser every formatted element
\* is once, in card order, in the array of its type (strong and em with
\* emphasis, mark with highlight), the three array lengths sum to the number of
\* elements, and the reasoning quotes the three lengths
ElementsOnceInTheirArray ==
    (tpc = "push" /\ FromParser(CurrentCard)) =>
       With(<<SpansOfArray(CurrentCard, "underline"), SpansOfArray(CurrentCard, "emphasis"),
              SpansOfArray(CurrentCard, "highlight")>>, LAMBDA arrays :
         /\ Len(arrays[1]) + Len(arrays[2]) + Len(arrays[3])
              = Len(CurrentCard.formattedElements)
         /\ \A n \in 1..Len(WholeCardExamples(examples)) :
               With(WholeCardExamples(examples)[n].messages[3].content, LAMBDA content :
                 /\ StartsAt(content, 0, ArraysText(arrays[1], arrays[2], arrays[3]))
                 /\ With(Substring(content,
                                   Len(ArraysText(arrays[1], arrays[2], arrays[3])),
                                   Len(content)), LAMBDA reasoning :
                      /\ CountQuoted(reasoning, "Underlined", Len(arrays[1]))
                      /\ CountQuoted(reasoning, "Emphasized", Len(arrays[2]))
                      /\ CountQuoted(reasoning, "Highlighted", Len(arrays[3])))))

\* the full and the context-aware example of a parser card are built whose
\* elements are of the types underline, emphasis, strong and highlight: two
\* spans are underlined, two emphasized and one highlighted
ElementsOnceWitness ==
    /\ tpc = "push" /\ FromParser(CurrentCard)
    /\ Len(WholeCardExamples(examples)) = 2
    /\ {CurrentCard.formattedElements[n].type : n \in 1..Len(CurrentCard.formattedElements)}
          = {"underline", "emphasis", "strong", "highlight"}
    /\ Len(SpansOfArray(CurrentCard, "underline")) = 2
    /\ Len(SpansOfArray(CurrentCard, "emphasis")) = 2
    /\ Len(SpansOfArray(CurrentCard, "highlight")) = 1

(***************************************************************************)
(* Properties of inferDebateContext (specification SpecContext)            *)
(***************************************************************************)
\* the text of the card that is scanned, in lower case
ScannedText(card) == toLowerCase(card.tag \o " " \o card.cite \o " " \o card.bodyText)

TopicOrder ==
    << <<"climate change", {"climate", "environment", "warming"}>>,
       <<"economics", {"economic", "gdp", "market"}>>,
       <<"security", {"security", "military", "defense"}>>,
       <<"healthcare", {"health", "medical", "disease"}>> >>

TypeOrder ==
    << <<"impact", {"impact", "consequence", "result"}>>,
       <<"link", {"cause", "because", "leads to"}>>,
       <<"solvency", {"solve", "address", "fix"}>> >>

\* the buckets of an axis with a keyword in the text
Matching(text, order) ==
    {n \in 1..Len(order) : \E word \in order[n][2] : OccursIn(word, text)}

\* value is the first bucket of the axis with a keyword in the text, or the
\* fallback when there is none
FirstMatching(value, text, order, fallback) ==
    /\ Matching(text, order) = {} => value = fallback
    /\ \A n \in Matching(text, order) :
          (\A m \in Matching(text, order) : n <= m) => value = order[n][1]

\* C23: inferDebateContext returns, on each axis on its own, the first bucket in
\* the fixed order with a keyword in the lower-cased tag, cite and bodyText, and
\* general / evidence when no bucket of the axis matches
FirstBucketWins ==
    contextResult.done =>
       /\ FirstMatching(contextResult.value.topic, ScannedText(contextCard),
                        TopicOrder, "general")
       /\ FirstMatching(contextResult.value.type, ScannedText(contextCard),
                        TypeOrder, "evidence")

\* the call has returned for a card whose text matches the last two topic
\* buckets and no type bucket: the topic is security, the type evidence
FirstBucketWitness ==
    /\ contextResult.done
    /\ Matching(ScannedText(contextCard), TopicOrder) = {3, 4}
    /\ Matching(ScannedText(contextCard), TypeOrder) = {}
    /\ contextResult.value.topic = "security"
    /\ contextResult.value.type = "evidence"

(***************************************************************************)
(* Properties of scanDocument (specification SpecScan)                     *)
(***************************************************************************)
\* the runs that have set isProcessing and not yet reset it
RunsInProgress == {run \in 1..Len(scanRuns) : InProgress(scanRuns[run])}

\* the positions in serviceCalls of the calls of a run
CallsOf(run) == {n \in 1..Len(serviceCalls) : serviceCalls[n].run = run}

\* the services a run has called, in order
ServicesOf(run) ==
    [n \in 1..Cardinality(CallsOf(run)) |->
        serviceCalls[CHOOSE k \in CallsOf(run) :
                        Cardinality({m \in CallsOf(run) : m <= k}) = n].service]

\* C24: at most one scanDocument run is in progress, and then isProcessing is
\* true; a run refused because isProcessing was true has called no service; the
\* calls of one run are extract, convert, save in this order with no call of
\* another run in between
OneScanAtATime ==
    /\ Cardinality(RunsInProgress) <= 1
    /\ RunsInProgress # {} => isProcessing
    /\ \A run \in 1..Len(scanRuns) :
          /\ scanRuns[run].pc \in {"refused", "no document"} => CallsOf(run) = {}
          /\ \E n \in 0..3 : ServicesOf(run) = SubSeq(<<"extract", "convert", "save">>, 1, n)
          /\ \A first, last \in CallsOf(run) :
                \A between \in first..last : between \in CallsOf(run)

\* the second request is refused while the first run awaits the saving of the
\* examples it has converted
OneScanWitness ==
    /\ Len(scanRuns) = 2
    /\ scanRuns[1].pc = "save" /\ ServicesOf(1) = <<"extract", "convert", "save">>
    /\ scanRuns[1].converted # <<>>
    /\ scanRuns[2].pc = "refused" /\ CallsOf(2) = {}
    /\ isProcessing

\* a step in which the run leaves the await of saveTrainingData for the end
SavedStep(run) ==
    /\ run <= Len(scanRuns)
    /\ scanRuns[run].pc = "save"
    /\ scanRuns'[run].pc = "done"

\* C28: a run that has set isProcessing to true sets it back to false, whether
\* its services succeed or throw; this.trainingData changes only in the step
\* in which a run's save has succeeded, by the examples of that run appended,
\* and not in a step in which a run fails
ProcessingResetDataKept ==
    /\ isProcessing ~> ~isProcessing
    /\ [][/\ trainingData' # trainingData =>
               \E run \in 1..MaxRequests :
                  /\ SavedStep(run)
                  /\ trainingData' = trainingData \o scanRuns[run].converted
          /\ \A run \in 1..Len(scanRuns) :
                (InProgress(scanRuns[run]) /\ scanRuns'[run].pc = "failed") =>
                   /\ trainingData' = trainingData
                   /\ ~isProcessing']_vars

\* the first run has saved its examples, the second has failed at its save with
\* examples of its own: isProcessing is false again and this.trainingData holds
\* the examples of the first run only
ProcessingResetWitness ==
    /\ Len(scanRuns) >= 2
    /\ scanRuns[1].pc = "done" /\ scanRuns[1].converted # <<>>
    /\ scanRuns[2].pc = "failed" /\ scanRuns[2].converted # <<>>
    /\ ServicesOf(2) = <<"extract", "convert", "save">>
    /\ ~isProcessing
    /\ trainingData = scanRuns[1].converted

(***************************************************************************)
(* Single decoding by cleanText (specification SpecClean)                  *)
(***************************************************************************)
\* the text after the first n replacements of an order of the six entity
\* replacements
RECURSIVE ReplacedInOrder(_,_,_)
ReplacedInOrder(s, order, n) ==
    IF n = 0 THEN s
    ELSE ReplaceAll(ReplacedInOrder(s, order, n - 1),
                    EntityNames[order[n]], EntityChars[order[n]])

\* C25: cleanText decodes every entity occurrence once: "&amp;lt;" gives "&lt;",
\* and the result is the one every order of the entity replacements gives
DecodedOnceInAnyOrder ==
    (cleanResult.done /\ ~cleanArg.isNull) =>
       /\ cleanArg.value = "&amp;lt;" => cleanResult.value = "&lt;"
       /\ \A order \in Permutations(1..Len(EntityNames)) :
             cleanResult.value
                = Trim(CollapseWhiteSpace(
                         ReplacedInOrder(cleanArg.value, order, Len(EntityNames))))

(***************************************************************************)
(* Span texts and the body (specification SpecNested)                      *)
(***************************************************************************)
\* C26: the text of every span of a returned card occurs in the card's
\* bodyText, also when the run of the span holds other runs
SpanTextsInBody ==
    returned.done =>
       \A n \in 1..Len(returned.value) :
          \A i \in 1..Len(returned.value[n].formattedElements) :
             OccursIn(returned.value[n].formattedElements[i].text,
                      returned.value[n].bodyText)

MonitorStopped(run) ==
    /\ run \in DOMAIN trainRuns
    /\ trainRuns[run].settles = 1
    /\ trainRuns[run].poll = "stopped"

\* the job of the run has ended
JobEnded(run) ==
    /\ run \in DOMAIN trainRuns
    /\ trainRuns[run].job \in TerminalStatuses

\* C29: once the job has reached a terminal status the monitor settles exactly
\* once and stops polling; it resolves only for 'succeeded', and it sets
\* the timer for another poll only while the job has not ended
SettlesOnceOnTerminal ==
    /\ \A run \in 1..MaxTrainings : JobEnded(run) ~> MonitorStopped(run)
    /\ [](\A run \in 1..Len(trainRuns) :
             /\ trainRuns[run].settles <= 1
             /\ trainRuns[run].promise = "resolved" => trainRuns[run].job = "succeeded")
    /\ [][\A run \in 1..Len(trainRuns) :
             (trainRuns[run].poll = "query" /\ trainRuns'[run].poll = "timer") =>
                trainRuns[run].job \notin TerminalStatuses]_vars

(***************************************************************************)
(* Properties of getCardFormatting (specification SpecFormatFair)          *)
(***************************************************************************)
\* C30: a call of getCardFormatting settles, and it retries at most maxRetries
\* times
SettlesWithinMaxRetries ==
    /\ \A call \in 1..MaxFormatCalls :
          (call \in DOMAIN formatCalls) ~>
             (call \in DOMAIN formatCalls /\ Settled(formatCalls[call]))
    /\ [](\A call \in 1..Len(formatCalls) : formatCalls[call].retries <= maxRetries)

====
